---- MODULE Spec2Model ----
(***************************************************************************)
(* The array type of package atype (element kind + axis lengths) and its   *)
(* index iteration: Strides, Iter, IterOn and IterOnAxes.                  *)
(*                                                                         *)
(* Axes are numbered from 0 as in the Go code; TLA+ sequences are indexed  *)
(* from 1, so the entry of axis a is seq[a + 1].                           *)
(*                                                                         *)
(* An iteration (iter.Seq2) is a function the consumer runs; every call    *)
(* of yield hands control to the consumer's loop body, which answers       *)
(* "continue" (true) or "stop" (false). The model cuts the function at     *)
(* the calls of yield: Begin runs it up to the first yield or return,      *)
(* Resume runs from a yield that answered true up to the next yield or     *)
(* return, Stop is a yield that answered false.                             *)
(***************************************************************************)
EXTENDS Integers, Sequences, FiniteSets, TLC

\* ------------------------------------------------------------------ bounds

\* Largest number of axes of an array type.
MaxRank == 4
\* Largest axis length.
MaxLen == 2
\* Largest number of axes of an array type IterOnAxes is called on, and the
\* largest length of its axesToIterate list.
MaxPartialRank == 2
\* Largest number of axes of an array type with the invalid element kind.
MaxInvalidRank == 1

\* Values a caller's index buffer holds before the call.
PresetValues == {0, 1}
\* Values of caller-supplied strides.
StrideValues == {1, 2}

SeqsUpTo(S, n) == UNION {[1..k -> S] : k \in 0..n}

\* make([]int, n): n zeros.
RECURSIVE Zeros(_)
Zeros(n) == IF n <= 0 THEN <<>> ELSE Append(Zeros(n - 1), 0)

\* ------------------------------------------------------------- array type

InvalidDType == "InvalidDType"
DTypes == {InvalidDType, "Float32"}

\* The array types Make builds (no negative axis length): every shape with a
\* valid element kind, the shapes of at most MaxInvalidRank axes with the
\* invalid one (Invalid() itself has no axes).
ArrayTypes ==
  {[DType |-> d, AxisLengths |-> l] :
      d \in DTypes \ {InvalidDType}, l \in SeqsUpTo(0..MaxLen, MaxRank)}
  \cup {[DType |-> InvalidDType, AxisLengths |-> l] : l \in SeqsUpTo(0..MaxLen, MaxInvalidRank)}

Ok(a) == a.DType # InvalidDType

NumAxes(a) == Len(a.AxisLengths)

RECURSIVE SizeLoop(_, _, _)
SizeLoop(a, i, size) ==
  IF i > NumAxes(a) THEN size ELSE SizeLoop(a, i + 1, size * a.AxisLengths[i])

Size(a) == SizeLoop(a, 1, 1)

IsZeroSize(a) == \E i \in 1..NumAxes(a) : a.AxisLengths[i] = 0

\* ---------------------------------------------------------------- strides

\* StridesLoop with the stride multiplied by the axis' own length before it
\* is stored.
RECURSIVE StridesLoopOwnLength(_, _, _, _)
StridesLoopOwnLength(a, axis, currentStride, strides) ==
  IF axis < 0 THEN strides
  ELSE StridesLoopOwnLength(a, axis - 1, currentStride * a.AxisLengths[axis + 1],
                            [strides EXCEPT ![axis + 1] = currentStride * a.AxisLengths[axis + 1]])

\* The loop of Strides: axis runs from numAxes-1 down to 0.
RECURSIVE StridesLoop(_, _, _, _)
StridesLoop(a, axis, currentStride, strides) ==
  IF axis < 0 THEN strides
  ELSE StridesLoop(a, axis - 1, currentStride * a.AxisLengths[axis + 1],
                   [strides EXCEPT ![axis + 1] = currentStride])

Strides(a) ==
  IF NumAxes(a) = 0 THEN <<>>
  ELSE IF IsZeroSize(a) THEN Zeros(NumAxes(a))
  ELSE StridesLoop(a, NumAxes(a) - 1, 1, Zeros(NumAxes(a)))

\* ------------------------------------------------------------------ state

VARIABLES
  at,       \* the array type the iteration is over (never written)
  call,     \* the call that created the iteration, with its arguments
  strides,  \* IterOnAxes: the strides in use
  indices,  \* the index buffer: the caller's, or the one the call allocated
  flatIdx,  \* the local flatIdx of the running iteration
  pc,       \* "idle", "created", "yield", "done", "stopped", "panicked"
  err,      \* what the panic was about
  yielded,  \* the pairs the consumer has been handed, copied as it got them
  calls,    \* the number of calls of yield so far, modulo 2
  heap,     \* two iterations side by side: the index buffers, by address
  its,      \* two iterations side by side: the state of each
  earlier,  \* the earlier runs of the iteration function: what each yielded
  fn        \* a call of a function of the array type: its arguments and outcome

vars == <<at, call, strides, indices, flatIdx, pc, err, yielded, calls, heap, its, earlier, fn>>

\* A slice argument: nil, or a slice with its contents.
NilArg == [isNil |-> TRUE, val |-> <<>>]
Slice(s) == [isNil |-> FALSE, val |-> s]

\* The call: the method, axesToIterate, and whether strides and indices were
\* nil. A slice that was passed is the variable strides or indices itself.
NoCall == [op |-> "none", axesToIterate |-> <<>>, stridesNil |-> TRUE, indicesNil |-> TRUE]

\* No function of the array type has been called.
NoOp == [name |-> "none"]

Init ==
  /\ at \in ArrayTypes
  /\ call = NoCall
  /\ strides = <<>>
  /\ indices = <<>>
  /\ flatIdx = 0
  /\ pc = "idle"
  /\ err = "none"
  /\ yielded = <<>>
  /\ calls = 0
  /\ heap = <<>>
  /\ its = <<>>
  /\ earlier = <<>>
  /\ fn = NoOp

\* The consumer's record of the pairs it was handed. It keeps at most
\* TraceCap(at) pairs, the latest always the last: one more than the number
\* of index tuples of an array type with these axis lengths (a zero length
\* counted as 1, since IterOnAxes may leave such an axis fixed).
RECURSIVE TraceCapLoop(_, _, _)
TraceCapLoop(a, i, n) ==
  IF i > NumAxes(a) THEN n
  ELSE TraceCapLoop(a, i + 1, n * (IF a.AxisLengths[i] > 1 THEN a.AxisLengths[i] ELSE 1))

TraceCap(a) == TraceCapLoop(a, 1, 1) + 1

Observe(y, f, idx) ==
  IF Len(y) < TraceCap(at) THEN Append(y, [flatIdx |-> f, indices |-> idx])
  ELSE [y EXCEPT ![Len(y)] = [flatIdx |-> f, indices |-> idx]]

\* yield(f, idx) is called: the consumer's loop body runs.
Yield(f, idx) ==
  /\ pc' = "yield"
  /\ yielded' = Observe(yielded, f, idx)
  /\ calls' = (calls + 1) % 2

\* ------------------------------------------------------------ the calls

\* Buffers a caller may pass for an array type of n axes: every content of
\* the right length, and the all-zero buffers one entry shorter and longer.
Buffers(vals, n) ==
  [1..n -> vals] \cup {Zeros(k) : k \in {n - 1, n + 1} \cap Nat}

\* LenMismatch accepting a slice that is too short.
LenTooLong(s, a) == Len(s) > NumAxes(a)

\* The test len(slice) != at.NumAxes() of IterOn and IterOnAxes.
LenMismatch(s, a) == Len(s) # NumAxes(a)

\* at.Iter(): allocates the buffer and calls IterOn.
CallIter ==
  /\ pc = "idle"
  /\ call' = [NoCall EXCEPT !.op = "Iter"]
  /\ indices' = Zeros(NumAxes(at))
  /\ pc' = "created"
  /\ UNCHANGED <<at, strides, flatIdx, err, yielded, calls, heap, its, earlier, fn>>

\* at.IterOn(indices).
CallIterOn ==
  /\ pc = "idle"
  /\ \E buf \in Buffers(PresetValues, NumAxes(at)) :
       /\ call' = [NoCall EXCEPT !.op = "IterOn", !.indicesNil = FALSE]
       /\ indices' = buf
       /\ IF LenMismatch(buf, at)
          THEN pc' = "panicked" /\ err' = "len(indices)"
          ELSE pc' = "created" /\ err' = err
  /\ UNCHANGED <<at, strides, flatIdx, yielded, calls, heap, its, earlier, fn>>

\* --------------------------------------------------- IterOn: the iteration

\* AnyLengthNotPositive looking for negative lengths only.
AnyLengthNegative(a) == \E i \in 1..NumAxes(a) : a.AxisLengths[i] < 0

AnyLengthNotPositive(a) == \E i \in 1..NumAxes(a) : a.AxisLengths[i] <= 0

\* The count of axes with length > 1.
NumNonTrivialAxes(a) == Cardinality({i \in 1..NumAxes(a) : a.AxisLengths[i] > 1})

\* The test that selects the loop labelled v2Yielder.
UsesV2(a) == NumAxes(a) > NumNonTrivialAxes(a) + 2

\* V2Carry with the reset of an overflowed index left out.
RECURSIVE V2CarryNoReset(_, _, _)
V2CarryNoReset(a, idx, axis) ==
  IF axis < 0 THEN [indices |-> idx, more |-> FALSE]
  ELSE IF a.AxisLengths[axis + 1] = 1 THEN V2CarryNoReset(a, idx, axis - 1)
  ELSE LET inc == [idx EXCEPT ![axis + 1] = @ + 1]
       IN IF inc[axis + 1] < a.AxisLengths[axis + 1]
          THEN [indices |-> inc, more |-> TRUE]
          ELSE V2CarryNoReset(a, inc, axis - 1)

\* v2Yielder's inner loop: axis runs from numAxes-1 down to 0 over all axes
\* and passes over the axes of length 1. more = FALSE: the loop ran out (break).
RECURSIVE V2Carry(_, _, _)
V2Carry(a, idx, axis) ==
  IF axis < 0 THEN [indices |-> idx, more |-> FALSE]
  ELSE IF a.AxisLengths[axis + 1] = 1 THEN V2Carry(a, idx, axis - 1)
  ELSE LET inc == [idx EXCEPT ![axis + 1] = @ + 1]
       IN IF inc[axis + 1] < a.AxisLengths[axis + 1]
          THEN [indices |-> inc, more |-> TRUE]
          ELSE V2Carry(a, [inc EXCEPT ![axis + 1] = 0], axis - 1)

\* slices.Reverse.
RECURSIVE Reverse(_)
Reverse(s) == IF Len(s) = 0 THEN <<>> ELSE Append(Reverse(Tail(s)), Head(s))

RECURSIVE SpatialAxesLoop(_, _, _)
SpatialAxesLoop(a, axis, acc) ==
  IF axis >= NumAxes(a) THEN acc
  ELSE SpatialAxesLoop(a, axis + 1,
                       IF a.AxisLengths[axis + 1] > 1 THEN Append(acc, axis) ELSE acc)

\* SpatialAxes with slices.Reverse left out: the first axis first.
SpatialAxesNotReversed(a) == SpatialAxesLoop(a, 0, <<>>)

\* spatialAxes: the axes of length > 1, last axis first.
SpatialAxes(a) == Reverse(SpatialAxesLoop(a, 0, <<>>))

\* v3Yielder's inner loop: k runs over the positions of spatialAxes.
RECURSIVE V3Carry(_, _, _, _)
V3Carry(a, idx, spatialAxes, k) ==
  IF k > Len(spatialAxes) THEN [indices |-> idx, more |-> FALSE]
  ELSE LET axis == spatialAxes[k]
           inc == [idx EXCEPT ![axis + 1] = @ + 1]
       IN IF inc[axis + 1] < a.AxisLengths[axis + 1]
          THEN [indices |-> inc, more |-> TRUE]
          ELSE V3Carry(a, [inc EXCEPT ![axis + 1] = 0], spatialAxes, k + 1)

\* From a yield that answered true to the next yield or the end of the loop.
FullStep(a, idx) ==
  IF UsesV2(a) THEN V2Carry(a, idx, NumAxes(a) - 1)
  ELSE V3Carry(a, idx, SpatialAxes(a), 1)

\* The whole loop v2Yielder from all-zero indices: the pairs it yields to a
\* consumer that never stops.
RECURSIVE RunV2(_, _, _, _)
RunV2(a, idx, flat, out) ==
  IF V2Carry(a, idx, NumAxes(a) - 1).more
  THEN RunV2(a, V2Carry(a, idx, NumAxes(a) - 1).indices, flat + 1,
             Append(out, [flatIdx |-> flat, indices |-> idx]))
  ELSE Append(out, [flatIdx |-> flat, indices |-> idx])

\* The whole loop v3Yielder, likewise.
RECURSIVE RunV3(_, _, _, _)
RunV3(a, idx, flat, out) ==
  IF V3Carry(a, idx, SpatialAxes(a), 1).more
  THEN RunV3(a, V3Carry(a, idx, SpatialAxes(a), 1).indices, flat + 1,
             Append(out, [flatIdx |-> flat, indices |-> idx]))
  ELSE Append(out, [flatIdx |-> flat, indices |-> idx])

IsFull == call.op \in {"Iter", "IterOn"}

\* BeginIterOn without the loop that sets every index to 0.
BeginIterOnNoZeroing ==
  /\ pc = "created"
  /\ IsFull
  /\ IF ~Ok(at)
     THEN pc' = "done" /\ UNCHANGED <<indices, flatIdx, yielded, calls>>
     ELSE IF NumAxes(at) = 0
     THEN Yield(0, indices) /\ UNCHANGED <<indices, flatIdx>>
     ELSE IF AnyLengthNotPositive(at)
     THEN pc' = "done" /\ UNCHANGED <<indices, flatIdx, yielded, calls>>
     ELSE /\ indices' = indices
          /\ flatIdx' = 0
          /\ Yield(0, indices)
  /\ UNCHANGED <<at, call, strides, err, heap, its, earlier, fn>>

\* The function IterOn returned is run: up to its first yield, or its return.
BeginIterOn ==
  /\ pc = "created"
  /\ IsFull
  /\ IF ~Ok(at)
     THEN pc' = "done" /\ UNCHANGED <<indices, flatIdx, yielded, calls>>
     ELSE IF NumAxes(at) = 0
     THEN Yield(0, indices) /\ UNCHANGED <<indices, flatIdx>>
     ELSE IF AnyLengthNotPositive(at)
     THEN pc' = "done" /\ UNCHANGED <<indices, flatIdx, yielded, calls>>
     ELSE /\ indices' = Zeros(NumAxes(at))
          /\ flatIdx' = 0
          /\ Yield(0, Zeros(NumAxes(at)))
  /\ UNCHANGED <<at, call, strides, err, heap, its, earlier, fn>>

\* yield answered true.
ResumeIterOn ==
  /\ pc = "yield"
  /\ IsFull
  /\ IF NumAxes(at) = 0 \/ NumNonTrivialAxes(at) = 0
     THEN pc' = "done" /\ UNCHANGED <<indices, flatIdx, yielded, calls>>
     ELSE LET r == FullStep(at, indices)
          IN /\ flatIdx' = flatIdx + 1
             /\ indices' = r.indices
             /\ IF r.more
                THEN Yield(flatIdx + 1, r.indices)
                ELSE pc' = "done" /\ UNCHANGED <<yielded, calls>>
  /\ UNCHANGED <<at, call, strides, err, heap, its, earlier, fn>>

\* Stop with the indices advanced before the answer is looked at.
StopAfterAdvance ==
  /\ pc = "yield"
  /\ pc' = "stopped"
  /\ indices' = IF IsFull /\ NumNonTrivialAxes(at) > 0
                THEN FullStep(at, indices).indices ELSE indices
  /\ UNCHANGED <<at, call, strides, flatIdx, err, yielded, calls, heap, its, earlier, fn>>

\* yield answered false: the function returns at once.
Stop ==
  /\ pc = "yield"
  /\ pc' = "stopped"
  /\ UNCHANGED <<at, call, strides, indices, flatIdx, err, yielded, calls, heap, its, earlier, fn>>

\* ------------------------------------------------------------- IterOnAxes

\* at.IterOnAxes(axesToIterate, strides, indices).
CallIterOnAxes ==
  /\ pc = "idle"
  /\ NumAxes(at) <= MaxPartialRank
  /\ \E axes \in SeqsUpTo((-1)..MaxPartialRank, MaxPartialRank),
        st \in {NilArg} \cup {Slice(s) : s \in Buffers(StrideValues, NumAxes(at))
                                              \cup {Strides(at)}},
        ix \in {NilArg} \cup {Slice(s) : s \in Buffers(PresetValues, NumAxes(at))} :
       /\ call' = [op |-> "IterOnAxes", axesToIterate |-> axes,
                   stridesNil |-> st.isNil, indicesNil |-> ix.isNil]
       /\ strides' = IF st.isNil THEN Strides(at) ELSE st.val
       /\ IF ~st.isNil /\ LenMismatch(st.val, at)
          THEN pc' = "panicked" /\ err' = "len(strides)" /\ indices' = ix.val
          ELSE IF ix.isNil
          THEN pc' = "created" /\ err' = err /\ indices' = Zeros(NumAxes(at))
          ELSE IF LenMismatch(ix.val, at)
          THEN pc' = "panicked" /\ err' = "len(indices)" /\ indices' = ix.val
          ELSE pc' = "created" /\ err' = err /\ indices' = ix.val
  /\ UNCHANGED <<at, flatIdx, yielded, calls, heap, its, earlier, fn>>

\* AxesInit zeroing the whole buffer, as IterOn does.
AxesInitZeroAll(a, axes, idx, k) ==
  IF \E j \in 1..Len(axes) : axes[j] < 0 \/ axes[j] >= NumAxes(a)
  THEN [status |-> "panic", indices |-> Zeros(Len(idx))]
  ELSE IF \E j \in 1..Len(axes) : a.AxisLengths[axes[j] + 1] <= 0
  THEN [status |-> "return", indices |-> Zeros(Len(idx))]
  ELSE [status |-> "ok", indices |-> Zeros(Len(idx))]

\* AxesInit ending the iteration at an invalid axis as it does at an empty one.
RECURSIVE AxesInitInvalidReturns(_, _, _, _)
AxesInitInvalidReturns(a, axes, idx, k) ==
  IF k > Len(axes) THEN [status |-> "ok", indices |-> idx]
  ELSE LET axis == axes[k]
       IN IF axis < 0 \/ axis >= NumAxes(a) THEN [status |-> "return", indices |-> idx]
          ELSE IF a.AxisLengths[axis + 1] <= 0 THEN [status |-> "return", indices |-> idx]
          ELSE AxesInitInvalidReturns(a, axes, [idx EXCEPT ![axis + 1] = 0], k + 1)

\* AxesInit leaving the indices of the listed axes as it finds them.
RECURSIVE AxesInitNoZero(_, _, _, _)
AxesInitNoZero(a, axes, idx, k) ==
  IF k > Len(axes) THEN [status |-> "ok", indices |-> idx]
  ELSE LET axis == axes[k]
       IN IF axis < 0 \/ axis >= NumAxes(a) THEN [status |-> "panic", indices |-> idx]
          ELSE IF a.AxisLengths[axis + 1] <= 0 THEN [status |-> "return", indices |-> idx]
          ELSE AxesInitNoZero(a, axes, idx, k + 1)

\* The loop over axesToIterate that checks each axis and zeroes its index;
\* k is the position in the list.
RECURSIVE AxesInit(_, _, _, _)
AxesInit(a, axes, idx, k) ==
  IF k > Len(axes) THEN [status |-> "ok", indices |-> idx]
  ELSE LET axis == axes[k]
       IN IF axis < 0 \/ axis >= NumAxes(a) THEN [status |-> "panic", indices |-> idx]
          ELSE IF a.AxisLengths[axis + 1] <= 0 THEN [status |-> "return", indices |-> idx]
          ELSE AxesInit(a, axes, [idx EXCEPT ![axis + 1] = 0], k + 1)

\* The initial flatIdx: the loop adding indices[axis] * strides[axis].
RECURSIVE InitialFlatIdx(_, _, _, _)
InitialFlatIdx(idx, st, axis, flat) ==
  IF axis >= Len(idx) THEN flat
  ELSE InitialFlatIdx(idx, st, axis + 1, flat + idx[axis + 1] * st[axis + 1])

\* AxesCarry with the subtraction at the reset left out.
RECURSIVE AxesCarryNoSubtract(_, _, _, _, _, _)
AxesCarryNoSubtract(a, axes, st, idx, flat, axisIdx) ==
  IF axisIdx < 0 THEN [indices |-> idx, flatIdx |-> flat, more |-> FALSE]
  ELSE LET axis == axes[axisIdx + 1]
           inc == [idx EXCEPT ![axis + 1] = @ + 1]
           f == flat + st[axis + 1]
       IN IF inc[axis + 1] < a.AxisLengths[axis + 1]
          THEN [indices |-> inc, flatIdx |-> f, more |-> TRUE]
          ELSE AxesCarryNoSubtract(a, axes, st, [inc EXCEPT ![axis + 1] = 0], f, axisIdx - 1)

\* AxesCarry walking axesToIterate from its first entry: the first-listed
\* axis varies fastest.
RECURSIVE AxesCarryForward(_, _, _, _, _, _)
AxesCarryForward(a, axes, st, idx, flat, axisIdx) ==
  IF axisIdx < 0 THEN [indices |-> idx, flatIdx |-> flat, more |-> FALSE]
  ELSE LET axis == axes[Len(axes) - axisIdx]
           inc == [idx EXCEPT ![axis + 1] = @ + 1]
           f == flat + st[axis + 1]
       IN IF inc[axis + 1] < a.AxisLengths[axis + 1]
          THEN [indices |-> inc, flatIdx |-> f, more |-> TRUE]
          ELSE AxesCarryForward(a, axes, st, [inc EXCEPT ![axis + 1] = 0],
                                f - inc[axis + 1] * st[axis + 1], axisIdx - 1)

\* yielder's inner loop: axisIdx runs from len(axesToIterate)-1 down to 0.
RECURSIVE AxesCarry(_, _, _, _, _, _)
AxesCarry(a, axes, st, idx, flat, axisIdx) ==
  IF axisIdx < 0 THEN [indices |-> idx, flatIdx |-> flat, more |-> FALSE]
  ELSE LET axis == axes[axisIdx + 1]
           inc == [idx EXCEPT ![axis + 1] = @ + 1]
           f == flat + st[axis + 1]
       IN IF inc[axis + 1] < a.AxisLengths[axis + 1]
          THEN [indices |-> inc, flatIdx |-> f, more |-> TRUE]
          ELSE AxesCarry(a, axes, st, [inc EXCEPT ![axis + 1] = 0],
                         f - inc[axis + 1] * st[axis + 1], axisIdx - 1)

\* BeginIterOnAxes with the check of the axes moved before the returns for an
\* invalid element kind and for no axes.
BeginIterOnAxesChecksFirst ==
  /\ pc = "created"
  /\ call.op = "IterOnAxes"
  /\ LET r == AxesInit(at, call.axesToIterate, indices, 1)
         f == InitialFlatIdx(r.indices, strides, 0, 0)
     IN IF r.status = "panic"
        THEN /\ pc' = "panicked" /\ err' = "invalid axis"
             /\ UNCHANGED <<indices, flatIdx, yielded, calls>>
        ELSE IF ~Ok(at) \/ r.status = "return"
        THEN pc' = "done" /\ UNCHANGED <<indices, flatIdx, yielded, calls, err>>
        ELSE /\ indices' = r.indices
             /\ flatIdx' = f
             /\ Yield(f, r.indices)
             /\ err' = err
  /\ UNCHANGED <<at, call, strides, heap, its, earlier, fn>>

\* The function IterOnAxes returned is run: up to its first yield, its return
\* or its panic.
BeginIterOnAxes ==
  /\ pc = "created"
  /\ call.op = "IterOnAxes"
  /\ IF ~Ok(at)
     THEN pc' = "done" /\ UNCHANGED <<indices, flatIdx, yielded, calls, err>>
     ELSE IF NumAxes(at) = 0
     THEN Yield(0, indices) /\ UNCHANGED <<indices, flatIdx, err>>
     ELSE LET r == AxesInit(at, call.axesToIterate, indices, 1)
              f == InitialFlatIdx(r.indices, strides, 0, 0)
          IN /\ indices' = r.indices
             /\ IF r.status = "panic"
                THEN /\ pc' = "panicked" /\ err' = "invalid axis"
                     /\ UNCHANGED <<flatIdx, yielded, calls>>
                ELSE IF r.status = "return"
                THEN pc' = "done" /\ UNCHANGED <<flatIdx, yielded, calls, err>>
                ELSE /\ flatIdx' = f
                     /\ Yield(f, r.indices)
                     /\ err' = err
  /\ UNCHANGED <<at, call, strides, heap, its, earlier, fn>>

\* yield answered true.
ResumeIterOnAxes ==
  /\ pc = "yield"
  /\ call.op = "IterOnAxes"
  /\ IF NumAxes(at) = 0
     THEN pc' = "done" /\ UNCHANGED <<indices, flatIdx, yielded, calls>>
     ELSE LET r == AxesCarry(at, call.axesToIterate, strides, indices, flatIdx,
                             Len(call.axesToIterate) - 1)
          IN /\ indices' = r.indices
             /\ flatIdx' = r.flatIdx
             /\ IF r.more
                THEN Yield(r.flatIdx, r.indices)
                ELSE pc' = "done" /\ UNCHANGED <<yielded, calls>>
  /\ UNCHANGED <<at, call, strides, err, heap, its, earlier, fn>>

Next ==
  \/ CallIter
  \/ CallIterOn
  \/ CallIterOnAxes
  \/ BeginIterOn
  \/ BeginIterOnAxes
  \/ ResumeIterOn
  \/ ResumeIterOnAxes
  \/ Stop

Spec == Init /\ [][Next]_vars

\* The consumer never stops: every yield answers true.
NextNoStop ==
  \/ CallIter
  \/ CallIterOn
  \/ CallIterOnAxes
  \/ BeginIterOn
  \/ BeginIterOnAxes
  \/ ResumeIterOn
  \/ ResumeIterOnAxes

\* A for-range loop over the sequence runs on until the function returns or
\* panics.
LiveSpec == Init /\ [][NextNoStop]_vars /\ WF_vars(NextNoStop)

\* ------------------------------------------- two iterations side by side

\* Largest number of elements of the array type two iterations run over.
PairSize == 4

PairArrayTypes == {a \in ArrayTypes : NumAxes(a) <= MaxPartialRank /\ Size(a) <= PairSize}

\* The lists of distinct axes of a, in any order.
DistinctAxesLists(a) ==
  {l \in SeqsUpTo(0..(NumAxes(a) - 1), NumAxes(a)) : Cardinality({l[k] : k \in 1..Len(l)}) = Len(l)}

\* An iteration not yet created. buf is the address of its index buffer.
IdleIteration ==
  [op |-> "none", axesToIterate |-> <<>>, buf |-> 0, strides |-> <<>>,
   flatIdx |-> 0, pc |-> "idle", yielded |-> <<>>]

\* The address of the buffer the caller of IterOn passes.
CallerBuffer == 1

PairInit ==
  /\ at \in PairArrayTypes
  /\ call = NoCall
  /\ strides = <<>>
  /\ indices = <<>>
  /\ flatIdx = 0
  /\ pc = "idle"
  /\ err = "none"
  /\ yielded = <<>>
  /\ calls = 0
  /\ heap = <<Zeros(NumAxes(at))>>
  /\ its = [i \in 1..2 |-> IdleIteration]
  /\ earlier = <<>>
  /\ fn = NoOp

\* MakeBuffer handing out the buffer of the previous make again.
MakeBufferReused(h, n) ==
  IF Len(h) > CallerBuffer THEN [h EXCEPT ![Len(h)] = Zeros(n)] ELSE Append(h, Zeros(n))

\* make([]int, n): a new buffer of n zeros, at the last address of the result.
MakeBuffer(h, n) == Append(h, Zeros(n))

\* at.Iter() for iteration i.
PairCallIter(i) ==
  /\ its[i].pc = "idle"
  /\ heap' = MakeBuffer(heap, NumAxes(at))
  /\ its' = [its EXCEPT ![i] = [IdleIteration EXCEPT !.op = "Iter", !.buf = Len(heap'),
                                                     !.pc = "created"]]

\* at.IterOn(indices) for iteration i, on the caller's buffer.
PairCallIterOn(i) ==
  /\ its[i].pc = "idle"
  /\ heap' = heap
  /\ its' = [its EXCEPT ![i] = [IdleIteration EXCEPT !.op = "IterOn", !.buf = CallerBuffer,
                                                     !.pc = "created"]]

\* at.IterOnAxes(axesToIterate, nil, nil) for iteration i.
PairCallIterOnAxes(i) ==
  /\ its[i].pc = "idle"
  /\ \E axes \in DistinctAxesLists(at) :
       /\ heap' = MakeBuffer(heap, NumAxes(at))
       /\ its' = [its EXCEPT ![i] = [IdleIteration EXCEPT !.op = "IterOnAxes",
                                                          !.axesToIterate = axes,
                                                          !.buf = Len(heap'),
                                                          !.strides = Strides(at),
                                                          !.pc = "created"]]

\* The function an iteration call returned, run on buffer contents idx up to
\* its first yield, its return or its panic.
BeginOf(a, op, axes, st, idx) ==
  IF ~Ok(a) THEN [pc |-> "done", indices |-> idx, flatIdx |-> 0]
  ELSE IF NumAxes(a) = 0 THEN [pc |-> "yield", indices |-> idx, flatIdx |-> 0]
  ELSE IF op # "IterOnAxes"
  THEN IF AnyLengthNotPositive(a) THEN [pc |-> "done", indices |-> idx, flatIdx |-> 0]
       ELSE [pc |-> "yield", indices |-> Zeros(NumAxes(a)), flatIdx |-> 0]
  ELSE LET r == AxesInit(a, axes, idx, 1)
       IN [pc |-> IF r.status = "panic" THEN "panicked"
                  ELSE IF r.status = "return" THEN "done" ELSE "yield",
           indices |-> r.indices,
           flatIdx |-> IF r.status = "ok" THEN InitialFlatIdx(r.indices, st, 0, 0) ELSE 0]

\* The same function from a yield that answered true, on buffer contents idx,
\* up to its next yield or its return.
ResumeOf(a, op, axes, st, idx, flat) ==
  IF NumAxes(a) = 0 THEN [pc |-> "done", indices |-> idx, flatIdx |-> flat]
  ELSE IF op # "IterOnAxes"
  THEN IF NumNonTrivialAxes(a) = 0 THEN [pc |-> "done", indices |-> idx, flatIdx |-> flat]
       ELSE [pc |-> IF FullStep(a, idx).more THEN "yield" ELSE "done",
             indices |-> FullStep(a, idx).indices, flatIdx |-> flat + 1]
  ELSE LET r == AxesCarry(a, axes, st, idx, flat, Len(axes) - 1)
       IN [pc |-> IF r.more THEN "yield" ELSE "done", indices |-> r.indices,
           flatIdx |-> r.flatIdx]

\* Iteration i takes the outcome r of a step: its buffer is written, and at a
\* yield the consumer copies the pair.
PairTake(i, r) ==
  /\ heap' = [heap EXCEPT ![its[i].buf] = r.indices]
  /\ its' = [its EXCEPT ![i].pc = r.pc, ![i].flatIdx = r.flatIdx,
                        ![i].yielded = IF r.pc = "yield"
                                       THEN Append(@, [flatIdx |-> r.flatIdx, indices |-> r.indices])
                                       ELSE @]

PairBegin(i) ==
  /\ its[i].pc = "created"
  /\ PairTake(i, BeginOf(at, its[i].op, its[i].axesToIterate, its[i].strides, heap[its[i].buf]))

PairResume(i) ==
  /\ its[i].pc = "yield"
  /\ PairTake(i, ResumeOf(at, its[i].op, its[i].axesToIterate, its[i].strides,
                          heap[its[i].buf], its[i].flatIdx))

PairStop(i) ==
  /\ its[i].pc = "yield"
  /\ its' = [its EXCEPT ![i].pc = "stopped"]
  /\ heap' = heap

PairNext ==
  /\ \E i \in 1..2 :
       \/ PairCallIter(i)
       \/ PairCallIterOn(i)
       \/ PairCallIterOnAxes(i)
       \/ PairBegin(i)
       \/ PairResume(i)
       \/ PairStop(i)
  /\ UNCHANGED <<at, call, strides, indices, flatIdx, pc, err, yielded, calls, earlier, fn>>

PairSpec == PairInit /\ [][PairNext]_vars

\* ------------------------------------- the iteration function run again

\* Largest number of axes of an array type whose iteration is run again.
AgainRank == 1
\* How many times an iteration function is run again.
MaxAgain == 1

AgainInit == Init /\ NumAxes(at) <= AgainRank

\* The consumer ranges over the same iter.Seq2 value once more: the function
\* is called again. Its captured variables (at, strides, indices) are as the
\* last run left them, its locals are new.
ConsumeAgain ==
  /\ pc \in {"done", "stopped"}
  /\ Len(earlier) < MaxAgain
  /\ earlier' = Append(earlier, [yielded |-> yielded, pc |-> pc])
  /\ yielded' = <<>>
  /\ flatIdx' = 0
  /\ pc' = "created"
  /\ UNCHANGED <<at, call, strides, indices, err, calls, heap, its, fn>>

AgainNext ==
  \/ CallIter
  \/ CallIterOn
  \/ CallIterOnAxes
  \/ BeginIterOn
  \/ BeginIterOnAxes
  \/ ResumeIterOn
  \/ ResumeIterOnAxes
  \/ Stop
  \/ ConsumeAgain

AgainSpec == AgainInit /\ [][AgainNext]_vars

\* ------------------------------------------ the functions of array types

\* Largest number of axes of the array types the functions are called on.
OpsRank == 2

\* The element kinds: the invalid one and two valid ones.
OpsDTypes == DTypes \cup {"Float64"}

\* ArrayType values: any element kind with axis lengths Make accepts.
OpsArrayTypes ==
  {[DType |-> d, AxisLengths |-> l] : d \in OpsDTypes, l \in SeqsUpTo(0..MaxLen, OpsRank)}

OpsInit ==
  /\ at \in OpsArrayTypes
  /\ call = NoCall
  /\ strides = <<>>
  /\ indices = <<>>
  /\ flatIdx = 0
  /\ pc = "idle"
  /\ err = "none"
  /\ yielded = <<>>
  /\ calls = 0
  /\ heap = <<>>
  /\ its = <<>>
  /\ earlier = <<>>
  /\ fn = NoOp

\* The variables of the iterations, which the functions below leave alone.
iterVars == <<at, call, strides, indices, flatIdx, pc, err, yielded, calls, heap, its, earlier>>

\* Make accepting every length.
MakeUnchecked(dtype, axisLengths) ==
  [panic |-> FALSE, at |-> [DType |-> dtype, AxisLengths |-> axisLengths]]

\* Make(dtype, axisLengths...): panics on a length < 0.
Make(dtype, axisLengths) ==
  IF \E i \in 1..Len(axisLengths) : axisLengths[i] < 0
  THEN [panic |-> TRUE]
  ELSE [panic |-> FALSE, at |-> [DType |-> dtype, AxisLengths |-> axisLengths]]

DoMake ==
  /\ fn = NoOp
  /\ \E d \in OpsDTypes, l \in SeqsUpTo((-1)..MaxLen, OpsRank) :
       fn' = [name |-> "Make", dtype |-> d, axisLengths |-> l, result |-> Make(d, l)]
  /\ UNCHANGED iterVars

\* AxisLength without the counting from the end.
AxisLengthFromStartOnly(a, axis) ==
  IF axis < 0 \/ axis >= NumAxes(a) THEN [panic |-> TRUE]
  ELSE [panic |-> FALSE, value |-> a.AxisLengths[axis + 1]]

\* at.AxisLength(axis): a negative axis counts from the end; panics when out
\* of bounds.
AxisLength(a, axis) ==
  LET adjustedAxis == IF axis < 0 THEN axis + NumAxes(a) ELSE axis
  IN IF adjustedAxis < 0 \/ adjustedAxis >= NumAxes(a) THEN [panic |-> TRUE]
     ELSE [panic |-> FALSE, value |-> a.AxisLengths[adjustedAxis + 1]]

DoAxisLength ==
  /\ fn = NoOp
  /\ \E axis \in (-(OpsRank + 2))..(OpsRank + 1) :
       fn' = [name |-> "AxisLength", axis |-> axis, result |-> AxisLength(at, axis)]
  /\ UNCHANGED iterVars

IsScalar(a) == Ok(a) /\ NumAxes(a) = 0

\* slices.Equal: the same length and the same element at every position.
SlicesEqual(s, t) == Len(s) = Len(t) /\ \A i \in 1..Len(s) : s[i] = t[i]

\* Equal without the comparison of the element kinds.
EqualIgnoringDType(a, other) ==
  IF NumAxes(a) # NumAxes(other) THEN FALSE
  ELSE IF IsScalar(a) THEN TRUE
  ELSE SlicesEqual(a.AxisLengths, other.AxisLengths)

\* at.Equal(other).
Equal(a, other) ==
  IF a.DType # other.DType THEN FALSE
  ELSE IF NumAxes(a) # NumAxes(other) THEN FALSE
  ELSE IF IsScalar(a) THEN TRUE
  ELSE SlicesEqual(a.AxisLengths, other.AxisLengths)

\* at.EqualAxes(other).
EqualAxes(a, other) ==
  IF NumAxes(a) # NumAxes(other) THEN FALSE
  ELSE IF IsScalar(a) THEN TRUE
  ELSE SlicesEqual(a.AxisLengths, other.AxisLengths)

DoEqual ==
  /\ fn = NoOp
  /\ \E other \in OpsArrayTypes :
       fn' = [name |-> "Equal", other |-> other, result |-> Equal(at, other)]
  /\ UNCHANGED iterVars

DoEqualAxes ==
  /\ fn = NoOp
  /\ \E other \in OpsArrayTypes :
       fn' = [name |-> "EqualAxes", other |-> other, result |-> EqualAxes(at, other)]
  /\ UNCHANGED iterVars

\* An ArrayType value a function returns: backing tells whose memory its
\* AxisLengths slice is ("new": its own, "nil": it has none, "at1", "at2": an
\* operand's).
Returned(dtype, axisLengths, backing) ==
  [DType |-> dtype, AxisLengths |-> axisLengths, backing |-> backing]

\* The zero ArrayType: what a function returns when it assigns nothing.
ZeroArrayType == Returned(InvalidDType, <<>>, "nil")

\* at.Clone(): the element kind and slices.Clone of the axis lengths.
Clone(a) == Returned(a.DType, [i \in 1..NumAxes(a) |-> a.AxisLengths[i]], "new")

\* ConcatenateAxes returning the other operand itself, not a clone of it.
ConcatenateAxesNoClone(at1, at2) ==
  IF at1.DType = InvalidDType \/ at2.DType = InvalidDType THEN ZeroArrayType
  ELSE IF at1.DType # at2.DType THEN ZeroArrayType
  ELSE IF IsScalar(at1) THEN Returned(at2.DType, at2.AxisLengths, "at2")
  ELSE IF IsScalar(at2) THEN Returned(at1.DType, at1.AxisLengths, "at1")
  ELSE Returned(at1.DType,
                [i \in 1..(NumAxes(at1) + NumAxes(at2)) |->
                   IF i <= NumAxes(at1) THEN at1.AxisLengths[i]
                   ELSE at2.AxisLengths[i - NumAxes(at1)]],
                "new")

\* ConcatenateAxes(at1, at2).
ConcatenateAxes(at1, at2) ==
  IF at1.DType = InvalidDType \/ at2.DType = InvalidDType THEN ZeroArrayType
  ELSE IF at1.DType # at2.DType THEN ZeroArrayType
  ELSE IF IsScalar(at1) THEN Clone(at2)
  ELSE IF IsScalar(at2) THEN Clone(at1)
  ELSE Returned(at1.DType,
                [i \in 1..(NumAxes(at1) + NumAxes(at2)) |->
                   IF i <= NumAxes(at1) THEN at1.AxisLengths[i]
                   ELSE at2.AxisLengths[i - NumAxes(at1)]],
                "new")

DoConcatenateAxes ==
  /\ fn = NoOp
  /\ \E other \in OpsArrayTypes :
       fn' = [name |-> "ConcatenateAxes", other |-> other, result |-> ConcatenateAxes(at, other)]
  /\ UNCHANGED iterVars

\* Largest nesting depth and largest slice length of the values FromAnyValue
\* is called on.
FromDepth == 2
FromWidth == 2

\* The Go types of the innermost values: one with an element kind, one without.
GoTypes == {"float32", "string"}

\* dtype.FromGoType: the element kind of a Go type, InvalidDType when there
\* is none.
FromGoType(t) == IF t = "float32" THEN "Float32" ELSE InvalidDType

\* reflect.TypeOf(nil): no type at all, the type of the value nil.
NilType == "nil"

\* The values of a type of d nested slices: a value that is no slice for
\* d = 0, and the slices of 0..FromWidth values of depth d - 1.
RECURSIVE Values(_)
Values(d) == IF d = 0 THEN {"scalar"} ELSE SeqsUpTo(Values(d - 1), FromWidth)

\* SiblingsLoop comparing no element with the first.
SiblingsLoopNone(first, prefix, v, ii, d, t) == [err |-> "none", at |-> first]

\* arrayTypeForAnyValueRecursive(arrayType, v, t) for t of d nested slices
\* over Go type t: the error and *arrayType as the call leaves it.  With no
\* type, t.Kind() is a call on a nil interface and panics.
\* SiblingsLoop is its loop over the elements after the first, from index ii
\* (from 1 here).
RECURSIVE ArrayTypeForAnyValueRecursive(_, _, _, _)
RECURSIVE SiblingsLoop(_, _, _, _, _, _)
SiblingsLoop(first, prefix, v, ii, d, t) ==
  IF ii > Len(v) THEN [err |-> "none", at |-> first]
  ELSE LET test == ArrayTypeForAnyValueRecursive(prefix, v[ii], d, t)
       IN IF test.err # "none" THEN [err |-> test.err, at |-> first]
          ELSE IF ~Equal(first, test.at) THEN [err |-> "irregular", at |-> first]
          ELSE SiblingsLoop(first, prefix, v, ii + 1, d, t)

ArrayTypeForAnyValueRecursive(arrayType, v, d, t) ==
  IF t = NilType THEN [err |-> "panic", at |-> arrayType]
  ELSE IF d = 0
  THEN [err |-> IF FromGoType(t) = InvalidDType THEN "unsupported" ELSE "none",
        at |-> [arrayType EXCEPT !.DType = FromGoType(t)]]
  ELSE LET prefix == [arrayType EXCEPT !.AxisLengths = Append(@, Len(v))]
       IN IF Len(v) = 0 THEN [err |-> "empty", at |-> prefix]
          ELSE LET first == ArrayTypeForAnyValueRecursive(prefix, v[1], d - 1, t)
               IN IF first.err # "none" THEN first
                  ELSE SiblingsLoop(first.at, prefix, v, 2, d - 1, t)

\* FromAnyValue(v), v of d nested slices over Go type t, or nil.
FromAnyValue(v, d, t) ==
  ArrayTypeForAnyValueRecursive([DType |-> InvalidDType, AxisLengths |-> <<>>], v, d, t)

\* FromAnyValue takes no array type: it is called from the states of the zero
\* array type only.
DoFromAnyValue ==
  /\ fn = NoOp
  /\ at = [DType |-> InvalidDType, AxisLengths |-> <<>>]
  /\ \E t \in GoTypes \cup {NilType} :
       \E d \in 0..(IF t = NilType THEN 0 ELSE FromDepth) :
         \E v \in Values(d) :
           fn' = [name |-> "FromAnyValue", goType |-> t, depth |-> d, v |-> v,
                  result |-> FromAnyValue(v, d, t)]
  /\ UNCHANGED iterVars

OpsNext ==
  \/ DoMake
  \/ DoAxisLength
  \/ DoEqual
  \/ DoEqualAxes
  \/ DoConcatenateAxes
  \/ DoFromAnyValue

OpsSpec == OpsInit /\ [][OpsNext]_vars

\* ---------------------------------------------------------------------------
\* The checks of an array type (asserts.go).  A Check form returns nil or an
\* error, modelled by the reason of the error; an Assert form panics or
\* returns.
\* ---------------------------------------------------------------------------

\* The wanted length that matches every length.
UncheckedAxis == -1

\* The wanted lengths a check is called with.
WantedLengths == SeqsUpTo(UncheckedAxis..MaxLen, OpsRank)

\* The wanted numbers of axes a check is called with.
WantedNumAxes == (-1)..(OpsRank + 1)

\* An object with an array type: its accessor returns a.
Hat(a) == [ArrayType |-> a]

CheckInit == OpsInit

\* CheckAxisLengths comparing every wanted length, -1 included.
CheckAxisLengthsNoWildcard(a, axisLengths) ==
  IF NumAxes(a) # Len(axisLengths) THEN "number of axes"
  ELSE IF \E ii \in 1..Len(axisLengths) : a.AxisLengths[ii] # axisLengths[ii]
       THEN "axis length"
       ELSE "nil"

\* at.CheckAxisLengths(axisLengths...).
CheckAxisLengths(a, axisLengths) ==
  IF NumAxes(a) # Len(axisLengths) THEN "number of axes"
  ELSE IF \E ii \in 1..Len(axisLengths) :
            axisLengths[ii] # -1 /\ a.AxisLengths[ii] # axisLengths[ii]
       THEN "axis length"
       ELSE "nil"

\* at.Check(dtype, axisLengths...).
Check(a, dtype, axisLengths) ==
  IF dtype # a.DType THEN "dtype" ELSE CheckAxisLengths(a, axisLengths)

\* at.AssertAxisLengths(axisLengths...): TRUE when it panics.
AssertAxisLengths(a, axisLengths) ==
  LET error == CheckAxisLengths(a, axisLengths) IN error # "nil"

\* at.Assert(dtype, axisLengths...): TRUE when it panics.
AssertDTypeAndAxisLengths(a, dtype, axisLengths) ==
  LET error == Check(a, dtype, axisLengths) IN error # "nil"

\* CheckAxisLengths(hat, axisLengths...).
FreeCheckAxisLengths(hat, axisLengths) == CheckAxisLengths(hat.ArrayType, axisLengths)

\* AssertAxisLengths(hat, axisLengths...).
FreeAssertAxisLengths(hat, axisLengths) == AssertAxisLengths(hat.ArrayType, axisLengths)

\* Assert(hat, dtype, axisLengths...).
FreeAssertDTypeAndAxisLengths(hat, dtype, axisLengths) ==
  AssertDTypeAndAxisLengths(hat.ArrayType, dtype, axisLengths)

\* at.CheckNumAxes(numAxes).
CheckNumAxes(a, numAxes) ==
  IF NumAxes(a) # numAxes THEN "number of axes" ELSE "nil"

\* at.AssertNumAxes(numAxes): TRUE when it panics.
AssertNumAxes(a, numAxes) ==
  LET error == CheckNumAxes(a, numAxes) IN error # "nil"

\* CheckNumAxes(hat, numAxes).
FreeCheckNumAxes(hat, numAxes) == CheckNumAxes(hat.ArrayType, numAxes)

\* AssertNumAxes(hat, numAxes).
FreeAssertNumAxes(hat, numAxes) == AssertNumAxes(hat.ArrayType, numAxes)

\* at.CheckScalar().
CheckScalar(a) == IF ~IsScalar(a) THEN "not a scalar" ELSE "nil"

\* at.AssertScalar(): TRUE when it panics.
AssertScalar(a) == LET error == CheckScalar(a) IN error # "nil"

\* CheckScalar(hat).
FreeCheckScalar(hat) == CheckScalar(hat.ArrayType)

\* AssertScalar(hat).
FreeAssertScalar(hat) == AssertScalar(hat.ArrayType)

DoCheckAxisLengths ==
  /\ fn = NoOp
  /\ \E l \in WantedLengths :
       fn' = [name |-> "at.CheckAxisLengths", axisLengths |-> l,
              err |-> CheckAxisLengths(at, l)]
  /\ UNCHANGED iterVars

DoCheck ==
  /\ fn = NoOp
  /\ \E d \in OpsDTypes, l \in WantedLengths :
       fn' = [name |-> "at.Check", dtype |-> d, axisLengths |-> l,
              err |-> Check(at, d, l)]
  /\ UNCHANGED iterVars

DoAssertAxisLengths ==
  /\ fn = NoOp
  /\ \E l \in WantedLengths :
       fn' = [name |-> "at.AssertAxisLengths", axisLengths |-> l,
              panic |-> AssertAxisLengths(at, l)]
  /\ UNCHANGED iterVars

DoAssertDTypeAndAxisLengths ==
  /\ fn = NoOp
  /\ \E d \in OpsDTypes, l \in WantedLengths :
       fn' = [name |-> "at.Assert", dtype |-> d, axisLengths |-> l,
              panic |-> AssertDTypeAndAxisLengths(at, d, l)]
  /\ UNCHANGED iterVars

DoFreeCheckAxisLengths ==
  /\ fn = NoOp
  /\ \E l \in WantedLengths :
       fn' = [name |-> "CheckAxisLengths", axisLengths |-> l,
              err |-> FreeCheckAxisLengths(Hat(at), l)]
  /\ UNCHANGED iterVars

DoFreeAssertAxisLengths ==
  /\ fn = NoOp
  /\ \E l \in WantedLengths :
       fn' = [name |-> "AssertAxisLengths", axisLengths |-> l,
              panic |-> FreeAssertAxisLengths(Hat(at), l)]
  /\ UNCHANGED iterVars

DoFreeAssertDTypeAndAxisLengths ==
  /\ fn = NoOp
  /\ \E d \in OpsDTypes, l \in WantedLengths :
       fn' = [name |-> "Assert", dtype |-> d, axisLengths |-> l,
              panic |-> FreeAssertDTypeAndAxisLengths(Hat(at), d, l)]
  /\ UNCHANGED iterVars

DoCheckNumAxes ==
  /\ fn = NoOp
  /\ \E n \in WantedNumAxes :
       fn' = [name |-> "at.CheckNumAxes", numAxes |-> n, err |-> CheckNumAxes(at, n)]
  /\ UNCHANGED iterVars

DoAssertNumAxes ==
  /\ fn = NoOp
  /\ \E n \in WantedNumAxes :
       fn' = [name |-> "at.AssertNumAxes", numAxes |-> n, panic |-> AssertNumAxes(at, n)]
  /\ UNCHANGED iterVars

DoFreeCheckNumAxes ==
  /\ fn = NoOp
  /\ \E n \in WantedNumAxes :
       fn' = [name |-> "CheckNumAxes", numAxes |-> n,
              err |-> FreeCheckNumAxes(Hat(at), n)]
  /\ UNCHANGED iterVars

DoFreeAssertNumAxes ==
  /\ fn = NoOp
  /\ \E n \in WantedNumAxes :
       fn' = [name |-> "AssertNumAxes", numAxes |-> n,
              panic |-> FreeAssertNumAxes(Hat(at), n)]
  /\ UNCHANGED iterVars

DoCheckScalar ==
  /\ fn = NoOp
  /\ fn' = [name |-> "at.CheckScalar", err |-> CheckScalar(at)]
  /\ UNCHANGED iterVars

DoAssertScalar ==
  /\ fn = NoOp
  /\ fn' = [name |-> "at.AssertScalar", panic |-> AssertScalar(at)]
  /\ UNCHANGED iterVars

DoFreeCheckScalar ==
  /\ fn = NoOp
  /\ fn' = [name |-> "CheckScalar", err |-> FreeCheckScalar(Hat(at))]
  /\ UNCHANGED iterVars

DoFreeAssertScalar ==
  /\ fn = NoOp
  /\ fn' = [name |-> "AssertScalar", panic |-> FreeAssertScalar(Hat(at))]
  /\ UNCHANGED iterVars

CheckNext ==
  \/ DoCheckAxisLengths
  \/ DoCheck
  \/ DoAssertAxisLengths
  \/ DoAssertDTypeAndAxisLengths
  \/ DoFreeCheckAxisLengths
  \/ DoFreeAssertAxisLengths
  \/ DoFreeAssertDTypeAndAxisLengths
  \/ DoCheckNumAxes
  \/ DoAssertNumAxes
  \/ DoFreeCheckNumAxes
  \/ DoFreeAssertNumAxes
  \/ DoCheckScalar
  \/ DoAssertScalar
  \/ DoFreeCheckScalar
  \/ DoFreeAssertScalar

CheckSpec == CheckInit /\ [][CheckNext]_vars

\* ---------------------------------------------------------------------------
\* The sizes of an array type (atype.go, Size to Memory).  Size multiplies in
\* Go's int and Memory in uintptr, both 64 bits wide: a machine word is
\* modelled by its 8 bytes, lowest first, so that the lengths of the model can
\* be large enough for a product to pass the width.
\* ---------------------------------------------------------------------------

\* The bytes of an int or uintptr, and the values of a byte.
WordBytes == 8
ByteBase == 256

\* The most axes of the array types whose sizes are taken.
SizeRank == 3

\* A large axis length.
BigLength == 2^30

\* The axis lengths Make is called with: all >= 0.
SizeLengths == {0, 1, 2, BigLength}

SizeArrayTypes ==
  {[DType |-> d, AxisLengths |-> l] : d \in OpsDTypes, l \in SeqsUpTo(SizeLengths, SizeRank)}

\* A natural number as its bytes, lowest first, without leading zeros.
RECURSIVE Bytes(_)
Bytes(n) == IF n = 0 THEN <<>> ELSE <<n % ByteBase>> \o Bytes(n \div ByteBase)

\* The sum of the products x[i] * y[j] that land on byte p of x * y.
RECURSIVE ByteSum(_, _, _, _)
ByteSum(x, y, p, i) ==
  IF i > Len(x) THEN 0
  ELSE (IF p + 1 - i \in 1..Len(y) THEN x[i] * y[p + 1 - i] ELSE 0)
       + ByteSum(x, y, p, i + 1)

RECURSIVE TimesFrom(_, _, _, _, _)
TimesFrom(x, y, p, carry, n) ==
  IF p > n THEN <<>>
  ELSE LET s == ByteSum(x, y, p, 1) + carry
       IN <<s % ByteBase>> \o TimesFrom(x, y, p + 1, s \div ByteBase, n)

\* The n lowest bytes of x * y: with n = WordBytes, the multiplication of two
\* machine words.
Times(x, y, n) == TimesFrom(x, y, 1, 0, n)

\* The word of a natural number below 2^31.
Word(n) == Times(Bytes(n), <<1>>, WordBytes)

\* The loop of Size on machine words: size *= length.
RECURSIVE SizeWordLoop(_, _, _)
SizeWordLoop(a, i, size) ==
  IF i > NumAxes(a) THEN size
  ELSE SizeWordLoop(a, i + 1, Times(size, Bytes(a.AxisLengths[i]), WordBytes))

\* at.Size() as the int it returns.
SizeWord(a) == SizeWordLoop(a, 1, Word(1))

\* dtype.Memory(): the bytes of one element.
DTypeMemory(d) == IF d = "Float32" THEN 4 ELSE 8

\* at.Memory() as the uintptr it returns.
MemoryWord(a) == Times(Word(DTypeMemory(a.DType)), SizeWord(a), WordBytes)

SizeInit ==
  /\ at \in SizeArrayTypes
  /\ call = NoCall
  /\ strides = <<>>
  /\ indices = <<>>
  /\ flatIdx = 0
  /\ pc = "idle"
  /\ err = "none"
  /\ yielded = <<>>
  /\ calls = 0
  /\ heap = <<>>
  /\ its = <<>>
  /\ earlier = <<>>
  /\ fn = NoOp

DoSize ==
  /\ fn = NoOp
  /\ fn' = [name |-> "Size", result |-> SizeWord(at)]
  /\ UNCHANGED iterVars

DoIsZeroSize ==
  /\ fn = NoOp
  /\ fn' = [name |-> "IsZeroSize", result |-> IsZeroSize(at)]
  /\ UNCHANGED iterVars

DoIsScalar ==
  /\ fn = NoOp
  /\ fn' = [name |-> "IsScalar", result |-> IsScalar(at)]
  /\ UNCHANGED iterVars

DoMemory ==
  /\ fn = NoOp
  /\ Ok(at)
  /\ fn' = [name |-> "Memory", result |-> MemoryWord(at)]
  /\ UNCHANGED iterVars

SizeNext ==
  \/ DoSize
  \/ DoIsZeroSize
  \/ DoIsScalar
  \/ DoMemory

SizeSpec == SizeInit /\ [][SizeNext]_vars

\* ---------------------------------------------------------------------------
\* Serialization (atype.go, GobSerialize and GobDeserialize).  The stream of
\* an encoder is the sequence of the values encoded, each one a message with
\* the type sent and the bytes of the value as encoding/gob writes them: an
\* unsigned integer below 128 in one byte, a larger one as the negated count
\* of its bytes and the bytes, highest first; a signed integer with its sign
\* in the lowest bit; a slice as its length and its elements.
\* ---------------------------------------------------------------------------

\* The most axes of the array types serialized, and their axis lengths: some
\* encoded in one byte, some in more.
GobRank == 2
GobLengths == {0, 1, 100, 300}

GobArrayTypes ==
  {[DType |-> d, AxisLengths |-> l] : d \in OpsDTypes, l \in SeqsUpTo(GobLengths, GobRank)}

\* The int32 of an element kind.
DTypeCode(d) ==
  CASE d = InvalidDType -> 0
    [] d = "Float32" -> 11
    [] d = "Float64" -> 12

\* The element kind of an int32.
DTypeOfCode(n) ==
  CASE n = 0 -> InvalidDType
    [] n = 11 -> "Float32"
    [] n = 12 -> "Float64"
    [] OTHER -> "unknown"

EncodeUint(x) ==
  IF x <= 127 THEN <<x>>
  ELSE LET b == Reverse(Bytes(x)) IN <<ByteBase - Len(b)>> \o b

EncodeInt(i) == EncodeUint(IF i < 0 THEN 2 * (-i - 1) + 1 ELSE 2 * i)

RECURSIVE EncodeInts(_, _)
EncodeInts(s, i) ==
  IF i > Len(s) THEN <<>> ELSE EncodeInt(s[i]) \o EncodeInts(s, i + 1)

EncodeSlice(s) == EncodeUint(Len(s)) \o EncodeInts(s, 1)

\* The number of a sequence of bytes, highest first.
RECURSIVE FromBytes(_, _, _)
FromBytes(b, i, acc) ==
  IF i > Len(b) THEN acc ELSE FromBytes(b, i + 1, acc * ByteBase + b[i])

\* Reads an unsigned integer from the front of b.
DecodeUint(b) ==
  IF b = <<>> THEN [ok |-> FALSE]
  ELSE IF b[1] <= 127 THEN [ok |-> TRUE, value |-> b[1], rest |-> Tail(b)]
  ELSE LET n == ByteBase - b[1]
       IN IF Len(b) - 1 < n THEN [ok |-> FALSE]
          ELSE [ok |-> TRUE, value |-> FromBytes(SubSeq(b, 2, n + 1), 1, 0),
                rest |-> SubSeq(b, n + 2, Len(b))]

DecodeInt(b) ==
  LET u == DecodeUint(b)
  IN IF ~u.ok THEN u
     ELSE [ok |-> TRUE, rest |-> u.rest,
           value |-> IF u.value % 2 = 1 THEN -(u.value \div 2) - 1
                     ELSE u.value \div 2]

RECURSIVE DecodeInts(_, _, _)
DecodeInts(b, n, acc) ==
  IF n = 0 THEN [ok |-> b = <<>>, value |-> acc]
  ELSE LET e == DecodeInt(b)
       IN IF ~e.ok THEN [ok |-> FALSE]
          ELSE DecodeInts(e.rest, n - 1, Append(acc, e.value))

DecodeSlice(b) ==
  LET n == DecodeUint(b)
  IN IF ~n.ok THEN [ok |-> FALSE] ELSE DecodeInts(n.rest, n.value, <<>>)

\* encoder.Encode(e) on the stream: nothing is written when the writer fails.
Encode(stream, type, bytes, fails) ==
  IF fails THEN [err |-> "write", stream |-> stream]
  ELSE [err |-> "nil", stream |-> Append(stream, [type |-> type, bytes |-> bytes])]

\* at.GobSerialize(encoder); the write numbered failing fails (0: none).
GobSerialize(a, stream, failing) ==
  LET first == Encode(stream, "int", EncodeInt(DTypeCode(a.DType)), failing = 1)
      second == IF first.err # "nil" THEN first
                ELSE Encode(first.stream, "[]int", EncodeSlice(a.AxisLengths), failing = 2)
  IN second

\* decoder.Decode(data) of the next message into a value of the wanted type.
Decode(stream, type) ==
  IF stream = <<>> THEN [err |-> "EOF", stream |-> stream]
  ELSE IF Head(stream).type # type
       THEN [err |-> "type", stream |-> Tail(stream)]
       ELSE LET d == IF type = "int" THEN DecodeInt(Head(stream).bytes)
                     ELSE DecodeSlice(Head(stream).bytes)
            IN IF ~d.ok THEN [err |-> "corrupt", stream |-> Tail(stream)]
               ELSE [err |-> "nil", stream |-> Tail(stream), value |-> d.value]

\* GobDeserialize reading the axis lengths before the element kind.
GobDeserializeLengthsFirst(stream) ==
  LET first == Decode(stream, "[]int")
      second == IF first.err # "nil" THEN first ELSE Decode(first.stream, "int")
  IN [err |-> second.err,
      at |-> [DType |-> IF second.err = "nil" THEN DTypeOfCode(second.value)
                        ELSE InvalidDType,
              AxisLengths |-> IF first.err = "nil" THEN first.value ELSE <<>>]]

\* GobDeserialize(decoder): the array type read so far, and the error.
GobDeserialize(stream) ==
  LET first == Decode(stream, "int")
      second == IF first.err # "nil" THEN first ELSE Decode(first.stream, "[]int")
  IN [err |-> second.err,
      at |-> [DType |-> IF first.err = "nil" THEN DTypeOfCode(first.value)
                        ELSE InvalidDType,
              AxisLengths |-> IF second.err = "nil" THEN second.value ELSE <<>>]]

GobInit ==
  /\ at \in GobArrayTypes
  /\ call = NoCall
  /\ strides = <<>>
  /\ indices = <<>>
  /\ flatIdx = 0
  /\ pc = "idle"
  /\ err = "none"
  /\ yielded = <<>>
  /\ calls = 0
  /\ heap = <<>>
  /\ its = <<>>
  /\ earlier = <<>>
  /\ fn = NoOp

DoGobSerialize ==
  /\ fn = NoOp
  /\ \E failing \in 0..2 :
       LET out == GobSerialize(at, <<>>, failing)
       IN fn' = [name |-> "GobSerialize", err |-> out.err, stream |-> out.stream]
  /\ UNCHANGED iterVars

DoGobDeserialize ==
  /\ fn.name = "GobSerialize"
  /\ LET in == GobDeserialize(fn.stream)
     IN fn' = [name |-> "GobDeserialize", serialized |-> fn,
               err |-> in.err, result |-> in.at]
  /\ UNCHANGED iterVars

GobNext ==
  \/ DoGobSerialize
  \/ DoGobDeserialize

GobSpec == GobInit /\ [][GobNext]_vars

\* ---------------------------------------------------------------------------
\* Partial iteration over all the axes in their order, on array types of as
\* many axes as full iteration is run on.
\* ---------------------------------------------------------------------------

\* The most elements of the array types it is run on.
NaturalSize == 16

NaturalInit == Init /\ Size(at) <= NaturalSize

\* The axes 0, 1, ..., n - 1.
RECURSIVE NaturalOrder(_)
NaturalOrder(n) == IF n <= 0 THEN <<>> ELSE Append(NaturalOrder(n - 1), n - 1)

\* at.IterOnAxes(axes, nil, nil) with axes = 0, 1, ..., NumAxes - 1.
CallIterOnAxesNatural ==
  /\ pc = "idle"
  /\ call' = [op |-> "IterOnAxes", axesToIterate |-> NaturalOrder(NumAxes(at)),
              stridesNil |-> TRUE, indicesNil |-> TRUE]
  /\ strides' = Strides(at)
  /\ pc' = "created" /\ err' = err /\ indices' = Zeros(NumAxes(at))
  /\ UNCHANGED <<at, flatIdx, yielded, calls, heap, its, earlier, fn>>

NaturalNext ==
  \/ CallIterOnAxesNatural
  \/ BeginIterOnAxes
  \/ ResumeIterOnAxes
  \/ Stop

NaturalSpec == NaturalInit /\ [][NaturalNext]_vars

\* ----------------------------------------------------------------- claims

IsPartial == call.op = "IterOnAxes"

Last(s) == s[Len(s)]

\* The product of the lengths of the axes after axis i (1-based), and of all.
RECURSIVE ProductAfter(_, _)
ProductAfter(lengths, i) ==
  IF i >= Len(lengths) THEN 1 ELSE lengths[i + 1] * ProductAfter(lengths, i + 1)

Product(lengths) == ProductAfter(lengths, 0)

\* The row-major coordinates of the k-th element (k from 0): the digits of k
\* in the mixed radix of the lengths, the last one least significant.
Digits(lengths, k) ==
  [i \in 1..Len(lengths) |-> (k \div ProductAfter(lengths, i)) % lengths[i]]

FullIterationCase ==
  IsFull /\ Ok(at) /\ NumAxes(at) >= 1 /\ ~AnyLengthNotPositive(at)

\* C1: full iteration (Iter, IterOn) over an array type with a valid element
\* kind, at least one axis and every axis length >= 1 yields exactly Size()
\* pairs; the k-th pair (k from 0) has flatIndex k and the row-major
\* coordinates of k.
C1_FullIterationRowMajor ==
  FullIterationCase =>
    /\ \A i \in 1..Len(yielded) :
         yielded[i] = [flatIdx |-> i - 1, indices |-> Digits(at.AxisLengths, i - 1)]
    /\ pc = "done" => Len(yielded) = Size(at)
    /\ Len(yielded) <= Size(at)

C1_Witness ==
  /\ FullIterationCase
  /\ pc = "done"
  /\ NumAxes(at) >= 3
  /\ Len(yielded) = 8
  /\ Last(yielded) = [flatIdx |-> 7, indices |-> <<1, 1, 1>>]

\* C2: for an array type (valid element kind) whose axis lengths are all >= 1,
\* the loop over all axes that passes over the axes of length 1 (v2Yielder)
\* and the loop over the reversed list of the axes of length > 1 (v3Yielder)
\* yield the same sequence of pairs, and it is the sequence the iteration
\* yielded, whichever loop it ran.
C2_StrategiesAgree ==
  (IsFull /\ Ok(at) /\ ~AnyLengthNotPositive(at) /\ pc = "done") =>
    /\ RunV2(at, Zeros(NumAxes(at)), 0, <<>>) = RunV3(at, Zeros(NumAxes(at)), 0, <<>>)
    /\ yielded = RunV2(at, Zeros(NumAxes(at)), 0, <<>>)
    /\ yielded = RunV3(at, Zeros(NumAxes(at)), 0, <<>>)

C2_Witness ==
  /\ IsFull /\ Ok(at) /\ pc = "done"
  /\ at.AxisLengths = <<2, 1, 2, 1>>
  /\ Len(yielded) = 4
  /\ yielded[2].indices = <<0, 0, 1, 0>>

\* The dot product of the index buffer with the strides.
RECURSIVE Dot(_, _)
Dot(idx, st) ==
  IF Len(idx) = 0 THEN 0
  ELSE idx[Len(idx)] * st[Len(idx)] + Dot(SubSeq(idx, 1, Len(idx) - 1), st)

\* C3: in IterOnAxes the flatIndex of every yielded pair is the dot product of
\* the whole index buffer (fixed and iterated axes) with the strides in use,
\* computed or supplied.
C3_FlatIdxIsDotProduct ==
  IsPartial =>
    /\ \A i \in 1..Len(yielded) : yielded[i].flatIdx = Dot(yielded[i].indices, strides)
    /\ pc = "yield" => flatIdx = Dot(indices, strides) /\ Last(yielded).indices = indices

C3_Witness ==
  /\ IsPartial /\ pc = "yield"
  /\ ~call.stridesNil /\ strides = <<1, 2>> /\ at.AxisLengths = <<2, 2>>
  /\ call.axesToIterate = <<0, 1>>
  /\ Len(yielded) = 3
  /\ Last(yielded) = [flatIdx |-> 1, indices |-> <<1, 0>>]

\* axesToIterate as the set of axes it lists, and the lengths of those axes
\* in the order listed.
ListedAxes == {call.axesToIterate[k] : k \in 1..Len(call.axesToIterate)}

ValidAxis(axis) == 0 <= axis /\ axis < NumAxes(at)

RECURSIVE LengthsOf(_, _)
LengthsOf(a, axes) ==
  IF Len(axes) = 0 THEN <<>>
  ELSE <<a.AxisLengths[Head(axes) + 1]>> \o LengthsOf(a, Tail(axes))

DistinctAxesCase ==
  /\ IsPartial /\ Ok(at)
  /\ \A k \in 1..Len(call.axesToIterate) : ValidAxis(call.axesToIterate[k])
  /\ Cardinality(ListedAxes) = Len(call.axesToIterate)
  /\ \A axis \in ListedAxes : at.AxisLengths[axis + 1] >= 1

C5_FixedAxesKept ==
  [][ (IsPartial /\ ~call.indicesNil /\ pc # "idle") =>
        /\ Len(indices') = Len(indices)
        /\ \A i \in 1..Len(indices) : (i - 1) \notin ListedAxes => indices'[i] = indices[i]
        /\ (pc = "created" /\ pc' = "yield") =>
             /\ yielded'[1].indices = indices'
             /\ \A axis \in ListedAxes : ValidAxis(axis) => indices'[axis + 1] = 0 ]_vars

C5_Witness ==
  /\ IsPartial /\ ~call.indicesNil /\ pc = "done"
  /\ at.AxisLengths = <<2, 2>> /\ call.axesToIterate = <<0>>
  /\ yielded = << [flatIdx |-> 1, indices |-> <<0, 1>>], [flatIdx |-> 3, indices |-> <<1, 1>>] >>
  /\ indices = <<0, 1>>

\* C6: when a yield answers stop, the function returns without running any
\* other statement: the step changes no variable of the iteration, the buffer
\* holds the indices just yielded, and nothing happens afterwards.
C6_StopChangesNothing ==
  [][ /\ pc' = "stopped" =>
           /\ pc = "yield"
           /\ UNCHANGED <<at, call, strides, indices, flatIdx, err, yielded, calls>>
           /\ indices' = Last(yielded').indices
      /\ pc = "stopped" => UNCHANGED vars ]_vars

C6_Witness ==
  /\ pc = "stopped" /\ IsFull
  /\ at.AxisLengths = <<2, 2>>
  /\ Len(yielded) = 2 /\ indices = <<0, 1>> /\ Last(yielded).indices = <<0, 1>>

AllAxesValid == \A k \in 1..Len(call.axesToIterate) : ValidAxis(call.axesToIterate[k])

\* C7: every created iteration is finite: run by a consumer that never
\* stops, Iter/IterOn over any array type, and IterOnAxes with every entry of
\* axesToIterate in 0 <= axis < rank, yields finitely many pairs and ends.
C7_IterationEnds ==
  (pc = "created" /\ (IsFull \/ (IsPartial /\ AllAxesValid))) ~> (pc = "done")

\* C7 for the lists that name no axis twice.
C7_DistinctAxesEnd ==
  (pc = "created" /\ (IsFull \/ (IsPartial /\ AllAxesValid
                                  /\ Cardinality(ListedAxes) = Len(call.axesToIterate))))
    ~> (pc = "done")

\* What the spec says of the strides st of array type a.
StridesAsSpecified(a, st) ==
  /\ Len(st) = NumAxes(a)
  /\ IF \E i \in 1..NumAxes(a) : a.AxisLengths[i] = 0
     THEN \A i \in 1..NumAxes(a) : st[i] = 0
     ELSE /\ NumAxes(a) >= 1 => st[NumAxes(a)] = 1
          /\ \A i \in 1..(NumAxes(a) - 1) : st[i] = st[i + 1] * a.AxisLengths[i + 1]

\* C8: Strides() has one entry per axis, 1 for the last axis and for every
\* other axis the stride of the next axis times the length of the next axis;
\* all 0 when some axis length is 0; empty for no axes. The strides IterOnAxes
\* computes for a nil argument are these.
C8_StridesRowMajor ==
  /\ StridesAsSpecified(at, Strides(at))
  /\ (IsPartial /\ call.stridesNil) => StridesAsSpecified(at, strides)

C8_Witness ==
  /\ IsPartial /\ call.stridesNil /\ pc = "created"
  /\ at.AxisLengths = <<2, 2>> /\ strides = <<2, 1>>
  /\ Strides([at EXCEPT !.AxisLengths = <<2, 1, 2, 2>>]) = <<4, 4, 2, 1>>

HasInvalidAxis == \E k \in 1..Len(call.axesToIterate) : ~ValidAxis(call.axesToIterate[k])

\* The function IterOnAxes returned has been run.
Consumed == pc \in {"yield", "done", "stopped"} \/ (pc = "panicked" /\ err = "invalid axis")

FailedOnAxis == pc = "panicked" /\ err = "invalid axis" /\ yielded = <<>>

\* C9 as stated: IterOnAxes fails with an out-of-range error whenever some
\* entry of axesToIterate is < 0 or >= rank, for every array type and every
\* position of the entry, and yields no pair.
C9_InvalidAxisAlwaysFails ==
  (IsPartial /\ HasInvalidAxis /\ Consumed) => FailedOnAxis

\* The position of the first invalid entry of axesToIterate.
FirstInvalid ==
  CHOOSE k \in 1..Len(call.axesToIterate) :
    /\ ~ValidAxis(call.axesToIterate[k])
    /\ \A j \in 1..(k - 1) : ValidAxis(call.axesToIterate[j])

\* The check of the axes is reached, and reaches the first invalid entry.
InvalidAxisReached ==
  /\ Ok(at) /\ NumAxes(at) >= 1
  /\ \A j \in 1..(FirstInvalid - 1) : at.AxisLengths[call.axesToIterate[j] + 1] >= 1

\* C9 amended: run on an array type with a valid element kind and at least
\* one axis, IterOnAxes fails with an out-of-range error and yields no pair
\* when some entry of axesToIterate is < 0 or >= rank and no entry listed
\* before the first such entry names an axis of length 0. With the invalid
\* element kind, or with an axis of length 0 listed before it, the iteration
\* ends with no pair and no error; with no axes it yields its one pair.
C9_InvalidAxisFailsWhenReached ==
  (IsPartial /\ HasInvalidAxis /\ Consumed) =>
    IF InvalidAxisReached THEN FailedOnAxis
    ELSE /\ pc # "panicked"
         /\ Len(yielded) = (IF Ok(at) /\ NumAxes(at) = 0 THEN 1 ELSE 0)

C9_Witness ==
  /\ IsPartial /\ FailedOnAxis
  /\ at.AxisLengths = <<2, 2>> /\ call.axesToIterate = <<1, 2>>
  /\ ~call.indicesNil /\ indices = <<1, 0>>

\* C10: IterOnAxes panics, with no pair yielded, on a strides or indices
\* slice that was passed and whose length is not the number of axes, and so
\* does IterOn on its indices; for nil strides IterOnAxes uses Strides(), for
\* nil indices a new buffer of NumAxes() zeros.
C10_SliceLengths ==
  /\ (IsPartial /\ ~call.stridesNil /\ Len(strides) # NumAxes(at)) =>
       (pc = "panicked" /\ err = "len(strides)" /\ yielded = <<>>)
  /\ (IsPartial /\ ~call.indicesNil /\ Len(indices) # NumAxes(at)) =>
       (pc = "panicked" /\ err \in {"len(strides)", "len(indices)"} /\ yielded = <<>>)
  /\ (call.op = "IterOn" /\ Len(indices) # NumAxes(at)) =>
       (pc = "panicked" /\ err = "len(indices)" /\ yielded = <<>>)
  /\ (IsPartial /\ call.stridesNil) => strides = Strides(at)
  /\ (IsPartial /\ call.indicesNil /\ pc = "created") => indices = Zeros(NumAxes(at))
  /\ (IsPartial /\ call.indicesNil /\ err # "len(strides)") => Len(indices) = NumAxes(at)

C10_Witness ==
  /\ IsPartial /\ pc = "panicked" /\ err = "len(strides)"
  /\ ~call.stridesNil /\ at.AxisLengths = <<2, 2>> /\ strides = <<0>>

\* The one pair of an array type with no axes.
ScalarPair == [flatIdx |-> 0, indices |-> <<>>]

\* The function the call returned has been run up to a yield or to its end.
Ran == pc \in {"yield", "done", "stopped"}

\* C11 as stated: for every array type with no axes, Iter and IterOnAxes yield
\* exactly one pair, (0, []), and then end.
C11_RankZeroOnePair ==
  (NumAxes(at) = 0 /\ call.op \in {"Iter", "IterOnAxes"} /\ Ran) => yielded = <<ScalarPair>>

\* C11 amended: for an array type with no axes and a valid element kind
\* (a scalar), Iter, IterOn and IterOnAxes, whatever axesToIterate lists,
\* yield exactly one pair, (0, []), and then end; with the invalid element
\* kind they end with no pair.
C11_ScalarOnePair ==
  (NumAxes(at) = 0 /\ (Ran \/ err = "invalid axis")) =>
    /\ pc # "panicked"
    /\ yielded = (IF at.DType # InvalidDType THEN <<ScalarPair>> ELSE <<>>)
    /\ indices = <<>>

C11_Witness ==
  /\ NumAxes(at) = 0 /\ at.DType # InvalidDType
  /\ IsPartial /\ call.axesToIterate = <<0>>
  /\ pc = "done" /\ yielded = <<ScalarPair>> /\ calls = 1

\* Some axis of the array type has length <= 0.
HasEmptyAxis == \E i \in 1..NumAxes(at) : at.AxisLengths[i] <= 0

\* axesToIterate lists an axis of length <= 0.
ListsEmptyAxis ==
  \E k \in 1..Len(call.axesToIterate) :
    ValidAxis(call.axesToIterate[k]) /\ at.AxisLengths[call.axesToIterate[k] + 1] <= 0

\* C12: full iteration over an array type with an axis of length <= 0 yields
\* no pair, and IterOnAxes yields no pair when axesToIterate lists an axis of
\* length <= 0, wherever in the list.
C12_EmptyAxisYieldsNothing ==
  /\ (IsFull /\ HasEmptyAxis) => (yielded = <<>> /\ pc \in {"created", "done", "panicked"})
  /\ (IsPartial /\ ListsEmptyAxis) => (yielded = <<>> /\ pc \in {"created", "done", "panicked"})

C12_Witness ==
  /\ IsPartial /\ pc = "done" /\ yielded = <<>>
  /\ at.AxisLengths = <<2, 0>> /\ call.axesToIterate = <<0, 1>>
  /\ ~call.indicesNil /\ indices = <<0, 1>>

\* The pairs an iteration yields when it runs alone, to a consumer that never
\* stops, from buffer contents idx.
RECURSIVE AloneFrom(_, _, _, _, _, _, _)
AloneFrom(a, op, axes, st, idx, flat, out) ==
  IF ResumeOf(a, op, axes, st, idx, flat).pc = "yield"
  THEN AloneFrom(a, op, axes, st, ResumeOf(a, op, axes, st, idx, flat).indices,
                 ResumeOf(a, op, axes, st, idx, flat).flatIdx,
                 Append(out, [flatIdx |-> ResumeOf(a, op, axes, st, idx, flat).flatIdx,
                              indices |-> ResumeOf(a, op, axes, st, idx, flat).indices]))
  ELSE out

Alone(a, op, axes, st, idx) ==
  IF BeginOf(a, op, axes, st, idx).pc = "yield"
  THEN AloneFrom(a, op, axes, st, BeginOf(a, op, axes, st, idx).indices,
                 BeginOf(a, op, axes, st, idx).flatIdx,
                 <<[flatIdx |-> BeginOf(a, op, axes, st, idx).flatIdx,
                    indices |-> BeginOf(a, op, axes, st, idx).indices]>>)
  ELSE <<>>

IsPrefix(s, t) == Len(s) <= Len(t) /\ SubSeq(t, 1, Len(s)) = s

\* Iteration i was created by Iter(), or by IterOnAxes with no buffer passed.
OwnsBuffer(i) == its[i].op \in {"Iter", "IterOnAxes"}

\* What iteration i has yielded is what it yields alone, so far.
YieldsAsAlone(i) ==
  LET alone == Alone(at, its[i].op, its[i].axesToIterate, its[i].strides, Zeros(NumAxes(at)))
  IN /\ IsPrefix(its[i].yielded, alone)
     /\ its[i].pc = "done" => its[i].yielded = alone
     /\ its[i].pc \in {"yield", "stopped"} =>
          /\ its[i].yielded # <<>>
          /\ heap[its[i].buf] = Last(its[i].yielded).indices

\* C13: two iterations over one array type, each created by Iter() or by
\* IterOnAxes with no buffer passed, with their steps interleaved in any
\* order: each yields the sequence it yields alone, its buffer is its own (not
\* the other's, not the caller's) and holds what it last yielded.
C13_InterleavedAsAlone ==
  \A i \in DOMAIN its : OwnsBuffer(i) =>
    /\ YieldsAsAlone(i)
    /\ its[i].buf # CallerBuffer
    /\ \A j \in DOMAIN its \ {i} : its[j].buf # its[i].buf

C13_Witness ==
  /\ DOMAIN its = 1..2
  /\ at.AxisLengths = <<2, 2>>
  /\ its[1].op = "Iter" /\ its[1].pc = "yield" /\ Len(its[1].yielded) = 2
  /\ its[2].op = "IterOnAxes" /\ its[2].axesToIterate = <<1, 0>> /\ its[2].pc = "done"
  /\ its[2].yielded[2] = [flatIdx |-> 2, indices |-> <<1, 0>>]
  /\ heap[its[1].buf] = <<0, 1>> /\ heap[its[2].buf] = <<0, 0>>

\* The length up to which two records of yielded pairs are whole.
Whole(s, t) ==
  LET n == IF Len(s) < Len(t) THEN Len(s) ELSE Len(t)
  IN IF n < TraceCap(at) THEN n ELSE TraceCap(at) - 1

\* Two runs yielded the same pairs as far as both went.
SameSoFar(s, t) == SubSeq(s, 1, Whole(s, t)) = SubSeq(t, 1, Whole(s, t))

\* C14 as stated: an iteration value is single-pass: once it has been
\* consumed, to completion or to cancellation, consuming it again does not
\* produce the sequence again.
C14_SinglePass == earlier # <<>> => yielded = <<>>

\* C14 amended: an iteration value can be consumed again, and every run of it
\* starts from the beginning: it yields the same pairs as the earlier runs as
\* far as both went, and a run that completes yields exactly what an earlier
\* completed run yielded.
C14_EveryRunFromStart ==
  \A k \in 1..Len(earlier) :
    /\ SameSoFar(earlier[k].yielded, yielded)
    /\ (pc = "yield" /\ earlier[k].yielded # <<>>) => yielded # <<>>
    /\ (pc \in {"yield", "stopped", "done"} /\ yielded = <<>>) => earlier[k].yielded = <<>>
    /\ (pc = "done" /\ earlier[k].pc = "done") => yielded = earlier[k].yielded

C14_Witness ==
  /\ Len(earlier) = 1 /\ earlier[1].pc = "stopped" /\ Len(earlier[1].yielded) = 2
  /\ IsPartial /\ at.AxisLengths = <<2>> /\ call.axesToIterate = <<0>>
  /\ pc = "done"
  /\ yielded = << [flatIdx |-> 0, indices |-> <<0>>], [flatIdx |-> 2, indices |-> <<1>>] >>

\* C15: Make(kind, lengths...) fails exactly when some given length is < 0;
\* otherwise it returns the array type with element kind kind and the given
\* lengths in order, lengths of 0 included.
C15_MakeRejectsNegative ==
  fn.name = "Make" =>
    /\ fn.result.panic <=> (\E i \in 1..Len(fn.axisLengths) : fn.axisLengths[i] < 0)
    /\ ~fn.result.panic =>
         /\ fn.result.at.DType = fn.dtype
         /\ fn.result.at.AxisLengths = fn.axisLengths
         /\ NumAxes(fn.result.at) = Len(fn.axisLengths)

C15_Witness ==
  /\ fn.name = "Make" /\ fn.dtype = "Float32" /\ fn.axisLengths = <<2, 0>>
  /\ ~fn.result.panic /\ fn.result.at = [DType |-> "Float32", AxisLengths |-> <<2, 0>>]

\* C16: for an array type of r axes, AxisLength(axis) returns AxisLengths[axis]
\* for 0 <= axis < r and AxisLengths[axis + r] for -r <= axis < 0, so that
\* AxisLength(-1) is AxisLength(r - 1); for every other axis, and for every
\* axis when r = 0, it aborts.
C16_AxisLengthFromEitherEnd ==
  fn.name = "AxisLength" =>
    LET r == NumAxes(at)
    IN /\ (0 <= fn.axis /\ fn.axis < r) =>
            (~fn.result.panic /\ fn.result.value = at.AxisLengths[fn.axis + 1])
       /\ (-r <= fn.axis /\ fn.axis < 0) =>
            (~fn.result.panic /\ fn.result.value = at.AxisLengths[fn.axis + r + 1])
       /\ (fn.axis < -r \/ fn.axis >= r) => fn.result.panic
       /\ (fn.axis = -1 /\ r >= 1) => fn.result = AxisLength(at, r - 1)

C16_Witness ==
  /\ fn.name = "AxisLength" /\ at.AxisLengths = <<1, 2>> /\ fn.axis = -1
  /\ ~fn.result.panic /\ fn.result.value = 2

\* C17: Equal(a, b) holds exactly when a and b have the same element kind and
\* the same axis lengths, EqualAxes(a, b) exactly when they have the same
\* axis lengths; both are reflexive, symmetric and transitive; two scalars of
\* different element kinds are EqualAxes and not Equal.
C17_EqualAndEqualAxes ==
  /\ fn.name = "Equal" =>
       /\ fn.result <=> (at.DType = fn.other.DType /\ at.AxisLengths = fn.other.AxisLengths)
       /\ Equal(at, at)
       /\ fn.result = Equal(fn.other, at)
       /\ \A c \in OpsArrayTypes : (fn.result /\ Equal(fn.other, c)) => Equal(at, c)
       /\ (IsScalar(at) /\ IsScalar(fn.other) /\ at.DType # fn.other.DType) =>
            (~fn.result /\ EqualAxes(at, fn.other))
  /\ fn.name = "EqualAxes" =>
       /\ fn.result <=> (at.AxisLengths = fn.other.AxisLengths)
       /\ EqualAxes(at, at)
       /\ fn.result = EqualAxes(fn.other, at)
       /\ \A c \in OpsArrayTypes : (fn.result /\ EqualAxes(fn.other, c)) => EqualAxes(at, c)
       /\ (IsScalar(at) /\ IsScalar(fn.other)) => fn.result

C17_Witness ==
  /\ fn.name = "EqualAxes" /\ fn.result
  /\ at = [DType |-> "Float32", AxisLengths |-> <<>>]
  /\ fn.other = [DType |-> "Float64", AxisLengths |-> <<>>]
  /\ ~Equal(at, fn.other)

\* C18: ConcatenateAxes(a, b) returns the invalid array type with no axes
\* when a or b has the invalid element kind or their kinds differ; otherwise b
\* when a is a scalar, a when b is a scalar, and else the common kind with the
\* axes of a followed by those of b. The result's axis lengths are never an
\* operand's slice.
C18_ConcatenateAxes ==
  fn.name = "ConcatenateAxes" =>
    LET a == at
        b == fn.other
        r == fn.result
    IN /\ (a.DType = InvalidDType \/ b.DType = InvalidDType \/ a.DType # b.DType) =>
            (r.DType = InvalidDType /\ r.AxisLengths = <<>>)
       /\ (a.DType # InvalidDType /\ a.DType = b.DType) =>
            /\ r.DType = a.DType
            /\ NumAxes(a) = 0 => r.AxisLengths = b.AxisLengths
            /\ NumAxes(b) = 0 => r.AxisLengths = a.AxisLengths
            /\ r.AxisLengths = a.AxisLengths \o b.AxisLengths
            /\ NumAxes(r) = NumAxes(a) + NumAxes(b)
       /\ r.backing \notin {"at1", "at2"}

C18_Witness ==
  /\ fn.name = "ConcatenateAxes"
  /\ at = [DType |-> "Float32", AxisLengths |-> <<2>>]
  /\ fn.other = [DType |-> "Float32", AxisLengths |-> <<0, 1>>]
  /\ fn.result.DType = "Float32" /\ fn.result.AxisLengths = <<2, 0, 1>>

\* No slice of value v (of d nested slices), at any level, is empty.
RECURSIVE NoEmptySlice(_, _)
NoEmptySlice(v, d) ==
  d = 0 \/ (Len(v) > 0 /\ \A i \in 1..Len(v) : NoEmptySlice(v[i], d - 1))

\* The lengths of the first slice at each level, outermost first.
RECURSIVE FirstLengths(_, _)
FirstLengths(v, d) ==
  IF d = 0 THEN <<>>
  ELSE IF Len(v) = 0 THEN <<0>>
  ELSE <<Len(v)>> \o FirstLengths(v[1], d - 1)

\* At every level all the elements of a slice have the same lengths all the
\* way down.
RECURSIVE Regular(_, _)
Regular(v, d) ==
  d = 0 \/ \A i \in 1..Len(v) :
             /\ Regular(v[i], d - 1)
             /\ FirstLengths(v[i], d - 1) = FirstLengths(v[1], d - 1)

\* C19: FromAnyValue succeeds exactly when no slice at any level is empty, the
\* elements of every slice have the same shape and the innermost Go type has
\* an element kind; the result then has that kind and one axis per level,
\* outermost first, with the length of the slices of that level. It returns an
\* error for an empty slice and for elements of different shapes.
C19_FromAnyValue ==
  fn.name = "FromAnyValue" =>
    /\ fn.result.err = "none" <=>
         (NoEmptySlice(fn.v, fn.depth) /\ Regular(fn.v, fn.depth)
            /\ FromGoType(fn.goType) # InvalidDType)
    /\ fn.result.err = "none" =>
         /\ fn.result.at.DType = FromGoType(fn.goType)
         /\ fn.result.at.AxisLengths = FirstLengths(fn.v, fn.depth)
         /\ NumAxes(fn.result.at) = fn.depth
    /\ ~NoEmptySlice(fn.v, fn.depth) => fn.result.err # "none"
    /\ ~Regular(fn.v, fn.depth) => fn.result.err # "none"

C19_Witness ==
  /\ fn.name = "FromAnyValue" /\ fn.goType = "float32" /\ fn.depth = 2
  /\ fn.v = << <<"scalar", "scalar">>, <<"scalar">> >>
  /\ fn.result.err = "irregular"

\* The wanted lengths match the array type: as many as it has axes, each one
\* the wildcard -1 or the length of its axis.
LengthsMatch ==
  /\ NumAxes(at) = Len(fn.axisLengths)
  /\ \A i \in 1..Len(fn.axisLengths) :
       fn.axisLengths[i] = -1 \/ fn.axisLengths[i] = at.AxisLengths[i]

\* C20: CheckAxisLengths(want...) returns no error exactly when the rank equals
\* the number of wanted lengths and every wanted length is -1 or the length of
\* its axis; Check(kind, want...) requires the element kind to match as well;
\* CheckNumAxes succeeds exactly when the rank is the wanted one and CheckScalar
\* exactly when the array type is a scalar; each Assert form panics exactly
\* when its Check form returns an error, and each free function over an object
\* with an array type ends as the method on that array type does.
C20_ChecksAndAsserts ==
  /\ fn.name \in {"at.CheckAxisLengths", "CheckAxisLengths"} =>
       (fn.err = "nil" <=> LengthsMatch)
  /\ fn.name \in {"at.AssertAxisLengths", "AssertAxisLengths"} =>
       (fn.panic <=> ~LengthsMatch)
  /\ fn.name = "at.Check" =>
       (fn.err = "nil" <=> (fn.dtype = at.DType /\ LengthsMatch))
  /\ fn.name \in {"at.Assert", "Assert"} =>
       (fn.panic <=> ~(fn.dtype = at.DType /\ LengthsMatch))
  /\ fn.name \in {"at.CheckNumAxes", "CheckNumAxes"} =>
       (fn.err = "nil" <=> NumAxes(at) = fn.numAxes)
  /\ fn.name \in {"at.AssertNumAxes", "AssertNumAxes"} =>
       (fn.panic <=> NumAxes(at) # fn.numAxes)
  /\ fn.name \in {"at.CheckScalar", "CheckScalar"} =>
       (fn.err = "nil" <=> (at.DType # InvalidDType /\ NumAxes(at) = 0))
  /\ fn.name \in {"at.AssertScalar", "AssertScalar"} =>
       (fn.panic <=> ~(at.DType # InvalidDType /\ NumAxes(at) = 0))

C20_Witness ==
  /\ at = [DType |-> "Float32", AxisLengths |-> <<2, 1>>]
  /\ fn.name = "Assert" /\ fn.dtype = "Float32" /\ fn.axisLengths = <<-1, 1>>
  /\ ~fn.panic

\* A sequence of bytes without its leading zeros (the highest bytes).
RECURSIVE Trim(_)
Trim(s) ==
  IF s = <<>> \/ s[Len(s)] # 0 THEN s ELSE Trim(SubSeq(s, 1, Len(s) - 1))

\* The product of the lengths as a natural number of any size, in bytes.
RECURSIVE ProductBytes(_, _)
ProductBytes(lengths, i) ==
  IF i > Len(lengths) THEN <<1>>
  ELSE LET rest == ProductBytes(lengths, i + 1)
       IN Trim(Times(Bytes(lengths[i]), rest, Len(rest) + WordBytes))

\* An int word is the natural number n (given in bytes): its sign bit is clear
\* and its bytes are those of n.
IntIs(word, n) == word[WordBytes] < 128 /\ Trim(word) = n

\* The product of the lengths, and its multiple by a byte width, fit an int.
ProductFits == Len(ProductBytes(at.AxisLengths, 1)) < WordBytes

\* C21: for every array type built by Make, Size() is the product of its axis
\* lengths (1 for rank 0); IsZeroSize() holds exactly when some axis length is
\* 0, equivalently when Size() is 0, and never for a scalar; IsScalar() holds
\* exactly when the rank is 0 and the element kind is not invalid; Memory() is
\* Size() times the byte width of the element kind.
C21_SizeIsProduct ==
  /\ fn.name = "Size" => IntIs(fn.result, ProductBytes(at.AxisLengths, 1))
  /\ fn.name = "IsZeroSize" =>
       /\ fn.result <=> (\E i \in 1..NumAxes(at) : at.AxisLengths[i] = 0)
       /\ fn.result <=> (SizeWord(at) = Word(0))
       /\ NumAxes(at) = 0 => ~fn.result
  /\ fn.name = "IsScalar" =>
       (fn.result <=> (NumAxes(at) = 0 /\ at.DType # InvalidDType))
  /\ fn.name = "Memory" =>
       Trim(fn.result) =
         Trim(Times(ProductBytes(at.AxisLengths, 1),
                    Bytes(IF at.DType = "Float32" THEN 4 ELSE 8), 3 * WordBytes))

\* The same where the product of the lengths times the byte width fits.
C21_SizeIsProductWhenItFits == ProductFits => C21_SizeIsProduct

C21_Overflows ==
  /\ at.AxisLengths = <<BigLength, BigLength, BigLength>>
  /\ fn.name = "Size" /\ fn.result = Word(0)

\* C22: for every constructible array type a, scalars, zero-length axes and
\* the invalid one included, GobDeserialize on the output of a successful
\* GobSerialize(a) succeeds and returns b with a.Equal(b); the element kind is
\* written first, then the axis lengths, and they are read in that order.
C22_GobRoundTrip ==
  /\ (fn.name = "GobSerialize" /\ fn.err = "nil") =>
       /\ Len(fn.stream) = 2
       /\ fn.stream[1].type = "int" /\ fn.stream[2].type = "[]int"
  /\ (fn.name = "GobDeserialize" /\ fn.serialized.err = "nil") =>
       /\ fn.err = "nil"
       /\ Equal(at, fn.result)
       /\ fn.result.DType = at.DType
       /\ fn.result.AxisLengths = at.AxisLengths

C22_Witness ==
  /\ fn.name = "GobDeserialize" /\ fn.serialized.err = "nil"
  /\ at = [DType |-> "Float32", AxisLengths |-> <<300, 0>>]
  /\ fn.serialized.stream[2].bytes = <<2, 254, 2, 88, 0>>
  /\ fn.err = "nil" /\ fn.result = at

\* C23: construction and inference errors are recoverable: a negative axis
\* length passed to Make, and an irregular, empty or unsupported value passed
\* to FromAnyValue, are each reported as an error returned to the caller, and
\* none of them aborts the caller.
C23_ErrorsAreReturned ==
  /\ fn.name = "Make" => ~fn.result.panic
  /\ fn.name = "FromAnyValue" =>
       /\ fn.result.err \in {"none", "unsupported", "empty", "irregular"}
       /\ (~NoEmptySlice(fn.v, fn.depth) \/ ~Regular(fn.v, fn.depth)
             \/ FromGoType(fn.goType) = InvalidDType) =>
            fn.result.err \in {"unsupported", "empty", "irregular"}

\* The part of it that holds: whatever has a Go type gets an error returned
\* by FromAnyValue.
C23_TypedValuesGetErrors ==
  (fn.name = "FromAnyValue" /\ fn.goType # NilType) =>
     /\ fn.result.err \in {"none", "unsupported", "empty", "irregular"}
     /\ (~NoEmptySlice(fn.v, fn.depth) \/ ~Regular(fn.v, fn.depth)
           \/ FromGoType(fn.goType) = InvalidDType) =>
          fn.result.err \in {"unsupported", "empty", "irregular"}

\* FromAnyValue(nil) has panicked.
C23_NilPanics ==
  fn.name = "FromAnyValue" /\ fn.goType = NilType /\ fn.result.err = "panic"

\* A full iteration is inside one of its two loops.
InFullLoop ==
  /\ call.op \in {"Iter", "IterOn"}
  /\ pc = "yield"
  /\ NumNonTrivialAxes(at) >= 1

\* C24: full iteration selects its loop by the threshold: with
\* rank <= nonTrivial + 2 (nonTrivial >= 1 axes of length > 1) it runs the
\* loop that walks all axes from last to first and skips those of length 1;
\* only with rank > nonTrivial + 2 does it run the loop over the reversed list
\* of the axes of length > 1.
C24_DenseUnlessManySingletons ==
  InFullLoop => (UsesV2(at) <=> NumAxes(at) <= NumNonTrivialAxes(at) + 2)

\* A one-axis array type in the loop over the list of axes of length > 1.
C24_OneAxisRunsListLoop ==
  InFullLoop /\ at.AxisLengths = <<2>> /\ ~UsesV2(at) /\ Len(yielded) >= 1

\* Every axis length is >= 1, and the element kind is valid.
AllLengthsPositive == Ok(at) /\ ~AnyLengthNotPositive(at)

\* Every axis has length 1 (and there is an axis).
OnlySingletons ==
  NumAxes(at) >= 1 /\ \A i \in 1..NumAxes(at) : at.AxisLengths[i] = 1

NaturalCase ==
  /\ call.op = "IterOnAxes"
  /\ call.axesToIterate = NaturalOrder(NumAxes(at))
  /\ call.stridesNil /\ call.indicesNil
  /\ pc \in {"yield", "done", "stopped"}

\* C26: for every array type, scalars, zero-length axes, singleton axes and
\* the invalid element kind included, IterOnAxes([0, 1, ..., rank-1], nil, nil)
\* yields exactly the sequence of (flatIndex, coordinates) pairs Iter() yields.
C26_NaturalOrderIsFullIteration ==
  NaturalCase =>
    LET full == Alone(at, "Iter", <<>>, <<>>, Zeros(NumAxes(at)))
    IN /\ IsPrefix(yielded, full)
       /\ pc = "yield" => yielded # <<>>
       /\ pc = "done" => yielded = full

C26_Witness ==
  /\ NaturalCase /\ pc = "done"
  /\ at.AxisLengths = <<1, 1, 2, 1>> /\ UsesV2(at)
  /\ yielded = <<[flatIdx |-> 0, indices |-> <<0, 0, 0, 0>>],
                 [flatIdx |-> 1, indices |-> <<0, 0, 1, 0>>]>>

\* The axes (1-based) the running iteration writes: all of them in full
\* iteration, the listed ones in IterOnAxes.
IteratedAxes ==
  IF IsFull THEN 1..NumAxes(at)
  ELSE {call.axesToIterate[j] + 1 : j \in 1..Len(call.axesToIterate)}
         \cap 1..NumAxes(at)

\* The iteration has yielded a pair.
HasYielded == pc \in {"yield", "done", "stopped"} /\ yielded # <<>>

\* After ending on its own, the buffer is as it was at the first yield: zeros
\* on the axes the iteration writes, the caller's values on the others.
BufferRestored ==
  (HasYielded /\ pc = "done") =>
     /\ indices = yielded[1].indices
     /\ \A i \in IteratedAxes : indices[i] = 0
     /\ IsFull => indices = Zeros(NumAxes(at))

\* On the axes in S, the buffer and every pair yielded hold coordinates below
\* the axis length.
InRangeOn(S) ==
  HasYielded =>
     /\ \A i \in S : indices[i] >= 0 /\ indices[i] < at.AxisLengths[i]
     /\ \A k \in 1..Len(yielded) : \A i \in S :
          yielded[k].indices[i] >= 0 /\ yielded[k].indices[i] < at.AxisLengths[i]

\* C27: when an iteration that yielded at least one pair runs to its end
\* without being stopped, the final carry leaves the buffer as it was at the
\* first yield: all zeros after IterOn, and after IterOnAxes zeros on the
\* iterated axes and the caller's values on the others; no coordinate equal to
\* its axis length is ever left in the buffer or visible at a yield.
C27_BufferRestoredNoneOutOfRange ==
  /\ BufferRestored
  /\ HasYielded =>
       /\ \A i \in 1..NumAxes(at) : indices[i] # at.AxisLengths[i]
       /\ \A k \in 1..Len(yielded) : \A i \in 1..NumAxes(at) :
            yielded[k].indices[i] # at.AxisLengths[i]

\* C27 as amended: the same, with no out-of-range coordinate on an axis the
\* iteration writes (an axis IterOnAxes leaves fixed holds what the caller
\* put there).
C27_BufferRestoredIteratedInRange ==
  /\ BufferRestored
  /\ InRangeOn(IteratedAxes)

\* IterOnAxes over the last axis, ended on its own, the caller's 1 still on
\* the first axis.
C27_Witness ==
  /\ call.op = "IterOnAxes" /\ pc = "done" /\ ~call.indicesNil
  /\ at.AxisLengths = <<2, 2>> /\ call.axesToIterate = <<1>>
  /\ Len(yielded) = 2
  /\ yielded[2].indices = <<1, 1>>
  /\ indices = <<1, 0>>

====
